---------------------------- MODULE Spec2Model ----------------------------
(* A model of glapp's imgui backends (src/imui/imui.go holds two of them,  *)
(* the glfw one in lines 1-446 and the sdl one in lines 448-900) and of    *)
(* the sdl driver (src/unnamed/part_000).                                  *)
(*                                                                         *)
(* Units.  The clock of the model ticks once per 1/60 s: glfw.GetTime()    *)
(* is read in ticks, and sdl.GetPerformanceFrequency() is 60, so that a    *)
(* delta time is a whole number of ticks and the fallback 1/60 s is 1.     *)
(* Cursor coordinates and handles are small integers, for which the        *)
(* conversions to float32 and uint32 of the code are exact.                *)
EXTENDS Integers, Sequences, FiniteSets, TLC

VARIABLES
    backend,   \* "glfw" or "sdl": which of the two IMUI types is built
    ui,        \* the IMUI struct
    io,        \* what the backend has pushed into imgui.IO
    host,      \* the window and input state the host library reports
    gl,        \* the state of the OpenGL context
    glLog,     \* the graphics-API calls issued by the last operation
    op,        \* the last operation, with its inputs
    hist,      \* history of the input events since the last NewFrame
    drv        \* the driver: main's position and its locals

vars == <<backend, ui, io, host, gl, glLog, op, hist, drv>>

Backends == {"glfw", "sdl"}

-----------------------------------------------------------------------------
(* Bounds of the model *)

\* the clock readings are 0..MaxClock
MaxClock == 3
\* cursor coordinates are 0..MaxCoord
MaxCoord == 1
\* at most MaxCmds draw commands are declared in one frame
MaxCmds == 3
\* Render is called at most MaxRenders times between two NewFrame
MaxRenders == 2
\* the clip rectangles of SpecScissor have their corners in -1..MaxClip
MaxClip == 2
\* a wheel event reports -MaxWheel..MaxWheel on each axis
MaxWheel == 2
\* at most MaxWheelEvents wheel events are delivered
MaxWheelEvents == 2
\* the driver's event queue holds at most MaxEvents events
MaxEvents == 2
\* the driver's loop draws at most MaxFrames frames
MaxFrames == 2
MaxShaders == 3

-----------------------------------------------------------------------------
(* Mouse buttons *)

mouseButtonPrimary == 0
mouseButtonSecondary == 1
mouseButtonTertiary == 2
mouseButtonCount == 3

ButtonIndices == 0 .. (mouseButtonCount - 1)

\* The host's button ids.  glfw.MouseButton1/2/3 are left/right/middle and
\* sdl.BUTTON_LEFT/RIGHT/MIDDLE likewise; "x1" is a button neither backend
\* knows (glfw.MouseButton4, sdl.BUTTON_X1).
HostButtons == {"left", "right", "middle", "x1"}

\* glfwButtonIndexByID, and the switch of the sdl ProcessEvent: the index of
\* a host button, -1 when the button is not known.
ButtonIndexByID(rawButton) ==
    CASE rawButton = "left"   -> mouseButtonPrimary
      [] rawButton = "right"  -> mouseButtonSecondary
      [] rawButton = "middle" -> mouseButtonTertiary
      [] OTHER                -> -1

\* glfwButtonIDByIndex, and the slice {BUTTON_LEFT, BUTTON_RIGHT,
\* BUTTON_MIDDLE} the sdl NewFrame ranges over.
ButtonIDByIndex(i) ==
    CASE i = mouseButtonPrimary   -> "left"
      [] i = mouseButtonSecondary -> "right"
      [] i = mouseButtonTertiary  -> "middle"

-----------------------------------------------------------------------------
(* The values pushed to imgui.IO *)

\* -math.MaxFloat32 does not fit TLC's integers: this number stands for it,
\* below every coordinate the host reports.
NegMaxFloat32 == -2147483647

MousePosSentinel == [X |-> NegMaxFloat32, Y |-> NegMaxFloat32]

\* const fallbackDelta = 1.0 / 60.0, in ticks of 1/60 s
fallbackDelta == 1

\* float32(n) of an integer: exact up to 2^24, rounded to even above it.
Float32(n) ==
    LET a == IF n < 0 THEN -n ELSE n
        r == IF a <= 16777216 THEN a
             ELSE LET q == a \div 2
                  IN  IF a % 2 = 0 THEN a
                      ELSE IF q % 2 = 0 THEN 2 * q ELSE 2 * (q + 1)
    IN  IF n < 0 THEN -r ELSE r

Vec2(x, y) == [X |-> Float32(x), Y |-> Float32(y)]

Positions == [X : 0 .. MaxCoord, Y : 0 .. MaxCoord]

-----------------------------------------------------------------------------
(* Construction: the zero values of the IMUI struct, and imgui.IO as        *)
(* imgui.CreateContext leaves it (its DeltaTime starts at 1/60 s).  The io  *)
(* record also holds what the library keeps for the backend to read:        *)
(* indexSize is imgui.IndexBufferLayout(), frameOpen says that              *)
(* imgui.NewFrame was called and imgui.Render not yet, drawData is the      *)
(* command lists declared in the frame, a sequence of lists of commands     *)
(* [elemCount, callback, textureID, clipRect]; mouseWheel is what           *)
(* AddMouseWheelDelta has accumulated, keysDown the key codes whose         *)
(* KeysDown entry is set, keyCtrl .. keySuper the modifier flags, keyMap    *)
(* the host key that imguiIO.KeyMap has set for each logical key.           *)

NewUI ==
    [ time                   |-> 0,
      mouseJustPressed       |-> [i \in ButtonIndices |-> FALSE],
      fontTexture            |-> 0,
      shaderHandle           |-> 0,
      vertHandle             |-> 0,
      fragHandle             |-> 0,
      attribLocationTex      |-> 0,
      attribLocationProjMtx  |-> 0,
      attribLocationPosition |-> 0,
      attribLocationUV       |-> 0,
      attribLocationColor    |-> 0,
      vboHandle              |-> 0,
      elementsHandle         |-> 0 ]

\* The logical keys of the UI library that setKeyMapping maps.
LogicalKeys ==
    { "KeyTab", "KeyLeftArrow", "KeyRightArrow", "KeyUpArrow", "KeyDownArrow",
      "KeyPageUp", "KeyPageDown", "KeyHome", "KeyEnd", "KeyInsert", "KeyDelete",
      "KeyBackspace", "KeySpace", "KeyEnter", "KeyEscape",
      "KeyA", "KeyC", "KeyV", "KeyX", "KeyY", "KeyZ" }

\* setKeyMapping: the host key each logical key is mapped to by
\* imguiIO.KeyMap.  The sdl table gives KeySpace the scancode of backspace.
setKeyMapping(b) ==
    IF b = "glfw"
    THEN   "KeyTab" :> "glfw.KeyTab" @@ "KeyLeftArrow" :> "glfw.KeyLeft"
        @@ "KeyRightArrow" :> "glfw.KeyRight" @@ "KeyUpArrow" :> "glfw.KeyUp"
        @@ "KeyDownArrow" :> "glfw.KeyDown" @@ "KeyPageUp" :> "glfw.KeyPageUp"
        @@ "KeyPageDown" :> "glfw.KeyPageDown" @@ "KeyHome" :> "glfw.KeyHome"
        @@ "KeyEnd" :> "glfw.KeyEnd" @@ "KeyInsert" :> "glfw.KeyInsert"
        @@ "KeyDelete" :> "glfw.KeyDelete" @@ "KeyBackspace" :> "glfw.KeyBackspace"
        @@ "KeySpace" :> "glfw.KeySpace" @@ "KeyEnter" :> "glfw.KeyEnter"
        @@ "KeyEscape" :> "glfw.KeyEscape" @@ "KeyA" :> "glfw.KeyA"
        @@ "KeyC" :> "glfw.KeyC" @@ "KeyV" :> "glfw.KeyV" @@ "KeyX" :> "glfw.KeyX"
        @@ "KeyY" :> "glfw.KeyY" @@ "KeyZ" :> "glfw.KeyZ"
    ELSE   "KeyTab" :> "sdl.SCANCODE_TAB" @@ "KeyLeftArrow" :> "sdl.SCANCODE_LEFT"
        @@ "KeyRightArrow" :> "sdl.SCANCODE_RIGHT" @@ "KeyUpArrow" :> "sdl.SCANCODE_UP"
        @@ "KeyDownArrow" :> "sdl.SCANCODE_DOWN" @@ "KeyPageUp" :> "sdl.SCANCODE_PAGEUP"
        @@ "KeyPageDown" :> "sdl.SCANCODE_PAGEDOWN" @@ "KeyHome" :> "sdl.SCANCODE_HOME"
        @@ "KeyEnd" :> "sdl.SCANCODE_END" @@ "KeyInsert" :> "sdl.SCANCODE_INSERT"
        @@ "KeyDelete" :> "sdl.SCANCODE_DELETE"
        @@ "KeyBackspace" :> "sdl.SCANCODE_BACKSPACE"
        @@ "KeySpace" :> "sdl.SCANCODE_BACKSPACE" @@ "KeyEnter" :> "sdl.SCANCODE_RETURN"
        @@ "KeyEscape" :> "sdl.SCANCODE_ESCAPE" @@ "KeyA" :> "sdl.SCANCODE_A"
        @@ "KeyC" :> "sdl.SCANCODE_C" @@ "KeyV" :> "sdl.SCANCODE_V"
        @@ "KeyX" :> "sdl.SCANCODE_X" @@ "KeyY" :> "sdl.SCANCODE_Y"
        @@ "KeyZ" :> "sdl.SCANCODE_Z"

\* imgui.IO after NewIMUI of backend b has called setKeyMapping on i.
WithKeyMapping(b, i) == [i EXCEPT !.keyMap = setKeyMapping(b)]

NewIO ==
    [ displaySize |-> Vec2(0, 0),
      deltaTime   |-> fallbackDelta,
      mousePos    |-> MousePosSentinel,
      mouseDown   |-> [i \in ButtonIndices |-> FALSE],
      fontTexID   |-> 0,
      mouseWheel  |-> [X |-> 0, Y |-> 0],
      keysDown    |-> {},
      keyMap      |-> [k \in LogicalKeys |-> "unmapped"],
      keyCtrl     |-> FALSE,
      keyShift    |-> FALSE,
      keyAlt      |-> FALSE,
      keySuper    |-> FALSE,
      indexSize   |-> 2,
      frameOpen   |-> FALSE,
      drawData    |-> <<>> ]

NewHost ==
    [ clock     |-> 0,
      focused   |-> TRUE,
      cursor    |-> [X |-> 0, Y |-> 0],
      down      |-> [b \in HostButtons |-> FALSE],
      keysHeld  |-> {},
      clipboard |-> [available |-> FALSE, text |-> ""],
      size      |-> [w |-> 2, h |-> 2],
      fbSize    |-> [w |-> 2, h |-> 2] ]

\* framed: NewFrame has been called; prevClock: the clock reading of the last
\* NewFrame; pressedSince[i]: a button-down event of button i was delivered
\* since the last NewFrame; shortClick[i]: the last NewFrame followed a press
\* of button i that was already released; afterClick[i]: the last NewFrame
\* followed a shortClick frame with no press of button i in between;
\* renders: the calls of Render since the last NewFrame; wheelEvents: the
\* wheel events delivered; wheelSigns: the signs of their raw values, summed
\* per axis; frameEnds: the calls of imgui.Render since the last
\* imgui.NewFrame; disposed: Dispose has been called; released: the delete calls
\* the Disposes have issued.
NewHist ==
    [ framed       |-> FALSE,
      renders      |-> 0,
      wheelEvents  |-> 0,
      wheelSigns   |-> [X |-> 0, Y |-> 0],
      frameEnds    |-> 0,
      disposed     |-> FALSE,
      released     |-> {},
      prevClock    |-> 0,
      pressedSince |-> [i \in ButtonIndices |-> FALSE],
      shortClick   |-> [i \in ButtonIndices |-> FALSE],
      afterClick   |-> [i \in ButtonIndices |-> FALSE] ]

-----------------------------------------------------------------------------
(* IMUI.NewFrame *)

\* Setup time step.  glfw: SetDeltaTime only if ui.time > 0, no else branch.
\* sdl: the else branch sets the fallback.
NewFrameDeltaTime(b, uiTime, currentTime, oldDelta) ==
    IF uiTime > 0
    THEN Float32(currentTime - uiTime)
    ELSE IF b = "glfw" THEN oldDelta ELSE fallbackDelta

\* Setup inputs.  glfw asks for the Focused attribute; sdl pushes what
\* sdl.GetMouseState() returns.
NewFrameMousePos(b, h) ==
    IF b = "glfw"
    THEN IF h.focused THEN Vec2(h.cursor.X, h.cursor.Y) ELSE MousePosSentinel
    ELSE Vec2(h.cursor.X, h.cursor.Y)

\* A NewFrame that forgets the latch and pushes the host's answer alone.
NewFrameButtonDown_HostOnly(latch, h, i) ==
    h.down[ButtonIDByIndex(i)]

\* down := latch[i] || host reports the button pressed
NewFrameButtonDown(latch, h, i) ==
    latch[i] \/ h.down[ButtonIDByIndex(i)]

\* ui.mouseJustPressed[i] = false, for every i of the loop
NewFrameLatch(latch) == [i \in ButtonIndices |-> FALSE]

\* The calls NewFrame makes on the UI library, in the order of the source,
\* each with the button index it passes (0 where it passes none).  glfw
\* calls SetDeltaTime only when ui.time > 0; sdl calls it in both branches.
NewFrameCalls(b, uiTime) ==
    <<  <<"SetDisplaySize", 0>>  >>
    \o (IF b = "glfw" /\ ~(uiTime > 0) THEN <<>> ELSE <<  <<"SetDeltaTime", 0>>  >>)
    \o <<  <<"SetMousePosition", 0>>  >>
    \o [i \in 1..Cardinality(ButtonIndices) |-> <<"SetMouseButtonDown", i - 1>>]
    \o <<  <<"imgui.NewFrame", 0>>  >>

\* NewFrame pushes display size, time step and mouse state to imgui.IO,
\* clears the latch and ends with imgui.NewFrame(), which opens the frame
\* and starts its draw data empty.
NewFrame ==
    /\ ui' = [ui EXCEPT !.time = host.clock,
                        !.mouseJustPressed = NewFrameLatch(ui.mouseJustPressed)]
    /\ io' = [io EXCEPT
                !.displaySize = Vec2(host.size.w, host.size.h),
                !.deltaTime = NewFrameDeltaTime(backend, ui.time, host.clock, io.deltaTime),
                !.mousePos = NewFrameMousePos(backend, host),
                !.mouseDown = [i \in ButtonIndices |->
                                 NewFrameButtonDown(ui.mouseJustPressed, host, i)],
                !.frameOpen = TRUE,
                !.drawData = <<>>]
    /\ hist' = [framed       |-> TRUE,
                renders      |-> 0,
                wheelEvents  |-> hist.wheelEvents,
                wheelSigns   |-> hist.wheelSigns,
                frameEnds    |-> 0,
                disposed     |-> hist.disposed,
                released     |-> hist.released,
                prevClock    |-> host.clock,
                pressedSince |-> [i \in ButtonIndices |-> FALSE],
                shortClick   |-> [i \in ButtonIndices |->
                                    hist.pressedSince[i] /\ ~host.down[ButtonIDByIndex(i)]],
                afterClick   |-> [i \in ButtonIndices |->
                                    hist.shortClick[i] /\ ~hist.pressedSince[i]]]
    /\ op' = [name      |-> "NewFrame",
              latch     |-> ui.mouseJustPressed,
              hostDown  |-> [i \in ButtonIndices |-> host.down[ButtonIDByIndex(i)]],
              first     |-> ~hist.framed,
              calls     |-> NewFrameCalls(backend, ui.time),
              prevClock |-> hist.prevClock]
    /\ glLog' = <<>>
    /\ UNCHANGED <<backend, host, gl, drv>>

-----------------------------------------------------------------------------
(* The raw input events *)

\* A handler that latches on every action of a known button, release included.
MouseButtonLatch_AnyAction(latch, rawButton, press) ==
    LET buttonIndex == ButtonIndexByID(rawButton)
        known == buttonIndex # -1
    IN  IF known
        THEN [latch EXCEPT ![buttonIndex] = TRUE]
        ELSE latch

\* glfw: mouseButtonChange(window, rawButton, action, mods).
\* sdl: ProcessEvent of a MOUSEBUTTONDOWN event; a MOUSEBUTTONUP event has no
\* case in the switch.
MouseButtonLatch(latch, rawButton, press) ==
    LET buttonIndex == ButtonIndexByID(rawButton)
        known == buttonIndex # -1
    IN  IF known /\ press
        THEN [latch EXCEPT ![buttonIndex] = TRUE]
        ELSE latch

\* The host sees button rawButton go down and delivers the event.
MouseButtonDown(rawButton) ==
    /\ ~host.down[rawButton]
    /\ host' = [host EXCEPT !.down[rawButton] = TRUE]
    /\ ui' = [ui EXCEPT !.mouseJustPressed =
                MouseButtonLatch(ui.mouseJustPressed, rawButton, TRUE)]
    /\ hist' = [hist EXCEPT !.pressedSince =
                  [i \in ButtonIndices |->
                     hist.pressedSince[i] \/ ButtonIndexByID(rawButton) = i]]
    /\ op' = [name |-> "MouseButtonDown", button |-> rawButton]
    /\ UNCHANGED <<backend, io, gl, glLog, drv>>

\* The host sees button rawButton go up and delivers the event.
MouseButtonUp(rawButton) ==
    /\ host.down[rawButton]
    /\ host' = [host EXCEPT !.down[rawButton] = FALSE]
    /\ ui' = [ui EXCEPT !.mouseJustPressed =
                MouseButtonLatch(ui.mouseJustPressed, rawButton, FALSE)]
    /\ op' = [name |-> "MouseButtonUp", button |-> rawButton]
    /\ UNCHANGED <<backend, io, gl, glLog, hist, drv>>

\* The sign of a raw wheel value.
Sign(n) == IF n > 0 THEN 1 ELSE IF n < 0 THEN -1 ELSE 0

\* The delta a wheel event with raw values x, y hands to AddMouseWheelDelta.
\* glfw: mouseScrollChange passes float32(x), float32(y).  sdl: ProcessEvent
\* counts deltaX and deltaY up or down by one from 0.
MouseWheelDelta(b, x, y) ==
    IF b = "glfw"
    THEN [X |-> Float32(x), Y |-> Float32(y)]
    ELSE [X |-> IF x > 0 THEN 1 ELSE IF x < 0 THEN -1 ELSE 0,
          Y |-> IF y > 0 THEN 1 ELSE IF y < 0 THEN -1 ELSE 0]

\* The host delivers a wheel event with raw values x, y.
MouseWheel(x, y) ==
    /\ hist.wheelEvents < MaxWheelEvents
    /\ LET delta == MouseWheelDelta(backend, x, y)
       IN  /\ io' = [io EXCEPT !.mouseWheel = [X |-> @.X + delta.X, Y |-> @.Y + delta.Y]]
           /\ op' = [name |-> "MouseWheel", delta |-> delta]
    /\ hist' = [hist EXCEPT !.wheelEvents = @ + 1,
                            !.wheelSigns = [X |-> @.X + Sign(x), Y |-> @.Y + Sign(y)]]
    /\ UNCHANGED <<backend, ui, host, gl, glLog, drv>>

-----------------------------------------------------------------------------
(* Key events *)

\* The keys of the model: the modifier keys by the names of their glfw key
\* and sdl scancode constants, and a letter.  "Unknown" is code 0, the value
\* mapModifier leaves in a result whose mask is not set; no key has it.
ModifierKeys ==
    { "LeftControl", "RightControl", "LeftShift", "RightShift",
      "LeftAlt", "RightAlt", "LeftSuper" }
Keys == ModifierKeys \cup {"A"}

\* The modifier bits an event may carry (the mods argument of the glfw
\* callback, the Mod field of the sdl keysym).
EventMods == SUBSET {"Control", "Shift"}

\* imgui's IO.KeyCtrl(left, right), KeyShift, KeyAlt, KeySuper: the flag is
\* KeysDown[left] || KeysDown[right].
KeyModifier(keysDown, left, right) == left \in keysDown \/ right \in keysDown

\* mapModifier of updateKeyModifier: the key code if its mask is set in
\* modState, else 0.
MapModifier(modState, key) == IF key \in modState THEN key ELSE "Unknown"

\* A handler that takes the flags from the event's modifier bits.
KeyChange_FromEventMods(b, i, key, action, mods, modState) ==
    LET down == IF action = "press" THEN i.keysDown \cup {key}
                ELSE IF action = "release" THEN i.keysDown \ {key}
                ELSE i.keysDown
    IN  [i EXCEPT !.keysDown = down,
                  !.keyCtrl = "Control" \in mods,
                  !.keyShift = "Shift" \in mods,
                  !.keyAlt = FALSE]

\* What a key event does to imgui.IO.  glfw: keyChange forwards a press or a
\* release (a repeat neither) and recomputes ctrl, shift, alt and super from
\* KeysDown.  sdl: ProcessEvent forwards KEYDOWN (repeats too) or KEYUP, then
\* updateKeyModifier recomputes shift, ctrl and alt from sdl.GetModState().
\* mods is the event's own modifier field, which neither reads.
KeyChange(b, i, key, action, mods, modState) ==
    LET down == IF action = "release" THEN i.keysDown \ {key}
                ELSE IF action = "press" \/ b = "sdl" THEN i.keysDown \cup {key}
                ELSE i.keysDown
    IN  IF b = "glfw"
        THEN [i EXCEPT !.keysDown = down,
                       !.keyCtrl = KeyModifier(down, "LeftControl", "RightControl"),
                       !.keyShift = KeyModifier(down, "LeftShift", "RightShift"),
                       !.keyAlt = KeyModifier(down, "LeftAlt", "RightAlt"),
                       !.keySuper = KeyModifier(down, "LeftSuper", "RightSuper")]
        ELSE [i EXCEPT !.keysDown = down,
                       !.keyShift = KeyModifier(down, MapModifier(modState, "LeftShift"),
                                                      MapModifier(modState, "RightShift")),
                       !.keyCtrl = KeyModifier(down, MapModifier(modState, "LeftControl"),
                                                     MapModifier(modState, "RightControl")),
                       !.keyAlt = KeyModifier(down, MapModifier(modState, "LeftAlt"),
                                                    MapModifier(modState, "RightAlt"))]

\* The host sees a key change and delivers the event; the modifier state it
\* reports from then on is the modifier keys it holds down.
KeyEvent(key, action, mods) ==
    /\ CASE action = "press" -> key \notin host.keysHeld
          [] action = "release" -> key \in host.keysHeld
          [] action = "repeat" -> key \in host.keysHeld
    /\ LET held == CASE action = "press" -> host.keysHeld \cup {key}
                     [] action = "release" -> host.keysHeld \ {key}
                     [] action = "repeat" -> host.keysHeld
       IN  /\ host' = [host EXCEPT !.keysHeld = held]
           /\ io' = KeyChange(backend, io, key, action, mods, held \cap ModifierKeys)
    /\ op' = [name |-> "KeyEvent", key |-> key, action |-> action, mods |-> mods]
    /\ UNCHANGED <<backend, ui, gl, glLog, hist, drv>>

-----------------------------------------------------------------------------
(* The clipboard *)

\* The texts of the model.
Texts == {"", "a", "b", "c", "d", "e"}

\* What the host binding's read returns.  glfw: Window.GetClipboardString
\* returns a string only, empty when there is no text.  sdl: GetClipboardText
\* returns the text and nil, or "" and an error when the host gave no text.
GetClipboard(b, clip) ==
    IF clip.available
    THEN { [text |-> clip.text, err |-> "nil"] }
    ELSE IF b = "glfw"
         THEN { [text |-> "", err |-> "nil"] }
         ELSE { [text |-> "", err |-> "nil"], [text |-> "", err |-> "error"] }

\* IMUI.Text: glfw returns the binding's string with a nil error, sdl returns
\* the binding's pair as it is.
Text ==
    /\ \E r \in GetClipboard(backend, host.clipboard) :
           op' = [name |-> "Text", text |-> r.text, err |-> r.err]
    /\ UNCHANGED <<backend, ui, io, host, gl, glLog, hist, drv>>

\* IMUI.SetText: hands the text to the host and drops the binding's result
\* (sdl: "_ ="; glfw: SetClipboardString returns nothing).
SetText(text, ok) ==
    /\ host' = IF ok
               THEN [host EXCEPT !.clipboard = [available |-> TRUE, text |-> text]]
               ELSE host
    /\ op' = [name |-> "SetText", text |-> text, ok |-> ok]
    /\ UNCHANGED <<backend, ui, io, gl, glLog, hist, drv>>

\* Another program takes the clipboard, or the host drops its content.
HostClipboard(clip) ==
    /\ host' = [host EXCEPT !.clipboard = clip]
    /\ op' = [name |-> "HostClipboard"]
    /\ UNCHANGED <<backend, ui, io, gl, glLog, hist, drv>>

-----------------------------------------------------------------------------
(* The host's own state changes *)

Tick ==
    /\ host.clock < MaxClock
    /\ host' = [host EXCEPT !.clock = @ + 1]
    /\ op' = [name |-> "Tick"]
    /\ UNCHANGED <<backend, ui, io, gl, glLog, hist, drv>>

FocusChange ==
    /\ host' = [host EXCEPT !.focused = ~@]
    /\ op' = [name |-> "FocusChange"]
    /\ UNCHANGED <<backend, ui, io, gl, glLog, hist, drv>>

\* The window is resized, minimized or restored.
WindowResize(ws) ==
    /\ <<host.size, host.fbSize>> # <<ws.size, ws.fbSize>>
    /\ host' = [host EXCEPT !.size = ws.size, !.fbSize = ws.fbSize]
    /\ op' = [name |-> "WindowResize"]
    /\ UNCHANGED <<backend, ui, io, gl, glLog, hist, drv>>

CursorMove ==
    /\ \E p \in Positions :
         /\ p # host.cursor
         /\ host' = [host EXCEPT !.cursor = p]
    /\ op' = [name |-> "CursorMove"]
    /\ UNCHANGED <<backend, ui, io, gl, glLog, hist, drv>>

-----------------------------------------------------------------------------
(* The OpenGL context *)

\* The texture units of the context, gl.TEXTURE0 + i.
TextureUnits == {0, 1}

Capabilities == {"BLEND", "CULL_FACE", "DEPTH_TEST", "SCISSOR_TEST"}

\* The state of a fresh context with a window of the host's framebuffer size.
\* elementArrayBuffer is a binding of the bound vertex array object, so it is
\* kept per vertex array (0 is the default one); texture2D and sampler are
\* bindings of a texture unit.  buffers, textures, shaderObjects (shaders and
\* programs share their names) and vertexArrays are the allocated names,
\* attached the <<program, shader>> pairs, compiled and linked the objects
\* whose last compile or link succeeded.
NewGL ==
    [ activeTexture      |-> 0,
      program            |-> 0,
      texture2D          |-> [u \in TextureUnits |-> 0],
      sampler            |-> [u \in TextureUnits |-> 0],
      arrayBuffer        |-> 0,
      vertexArray        |-> 0,
      elementArrayBuffer |-> (0 :> 0),
      polygonMode        |-> <<"FILL", "FILL">>,
      viewport           |-> <<0, 0, 2, 2>>,
      scissorBox         |-> <<0, 0, 2, 2>>,
      blendSrcRGB        |-> "ONE",
      blendDstRGB        |-> "ZERO",
      blendSrcAlpha      |-> "ONE",
      blendDstAlpha      |-> "ZERO",
      blendEquationRGB   |-> "FUNC_ADD",
      blendEquationAlpha |-> "FUNC_ADD",
      enabled            |-> [c \in Capabilities |-> FALSE],
      buffers            |-> {},
      textures           |-> {},
      shaderObjects      |-> {},
      vertexArrays       |-> {},
      attached           |-> {},
      compiled           |-> {},
      linked             |-> {} ]

\* One call: the function's name and its arguments.
GLCall(f, a) == [f |-> f, a |-> a]

\* What a call does to the state of the context.  Queries, uniform and
\* vertex-attribute calls, uploads and draws leave the modelled state alone.
GLApply(g, c) ==
    CASE c.f = "ActiveTexture" -> [g EXCEPT !.activeTexture = c.a[1]]
      [] c.f = "UseProgram" -> [g EXCEPT !.program = c.a[1]]
      [] c.f = "BindTexture" -> [g EXCEPT !.texture2D[g.activeTexture] = c.a[2]]
      [] c.f = "BindSampler" -> [g EXCEPT !.sampler[c.a[1]] = c.a[2]]
      [] c.f = "BindBuffer" ->
            IF c.a[1] = "ARRAY_BUFFER"
            THEN [g EXCEPT !.arrayBuffer = c.a[2]]
            ELSE [g EXCEPT !.elementArrayBuffer[g.vertexArray] = c.a[2]]
      [] c.f = "GenVertexArrays" ->
            [g EXCEPT !.vertexArrays = @ \cup {c.a[1]},
                      !.elementArrayBuffer = (c.a[1] :> 0) @@ @]
      [] c.f = "BindVertexArray" -> [g EXCEPT !.vertexArray = c.a[1]]
      [] c.f = "DeleteVertexArrays" ->
            IF c.a[1] \in g.vertexArrays
            THEN [g EXCEPT !.vertexArrays = @ \ {c.a[1]},
                           !.elementArrayBuffer =
                               [v \in (DOMAIN @) \ {c.a[1]} |-> @[v]],
                           !.vertexArray = IF @ = c.a[1] THEN 0 ELSE @]
            ELSE g
      [] c.f = "Enable" -> [g EXCEPT !.enabled[c.a[1]] = TRUE]
      [] c.f = "Disable" -> [g EXCEPT !.enabled[c.a[1]] = FALSE]
      [] c.f = "BlendEquation" ->
            [g EXCEPT !.blendEquationRGB = c.a[1], !.blendEquationAlpha = c.a[1]]
      [] c.f = "BlendEquationSeparate" ->
            [g EXCEPT !.blendEquationRGB = c.a[1], !.blendEquationAlpha = c.a[2]]
      [] c.f = "BlendFunc" ->
            [g EXCEPT !.blendSrcRGB = c.a[1], !.blendSrcAlpha = c.a[1],
                      !.blendDstRGB = c.a[2], !.blendDstAlpha = c.a[2]]
      [] c.f = "BlendFuncSeparate" ->
            [g EXCEPT !.blendSrcRGB = c.a[1], !.blendDstRGB = c.a[2],
                      !.blendSrcAlpha = c.a[3], !.blendDstAlpha = c.a[4]]
      [] c.f = "PolygonMode" ->
            IF c.a[1] = "FRONT_AND_BACK"
            THEN [g EXCEPT !.polygonMode = <<c.a[2], c.a[2]>>]
            ELSE IF c.a[1] = "FRONT"
                 THEN [g EXCEPT !.polygonMode[1] = c.a[2]]
                 ELSE [g EXCEPT !.polygonMode[2] = c.a[2]]
      [] c.f = "Viewport" -> [g EXCEPT !.viewport = c.a]
      [] c.f = "Scissor" -> [g EXCEPT !.scissorBox = c.a]
      [] c.f = "CreateProgram" -> [g EXCEPT !.shaderObjects = @ \cup ({c.a[1]} \ {0})]
      [] c.f = "CreateShader" -> [g EXCEPT !.shaderObjects = @ \cup ({c.a[2]} \ {0})]
      [] c.f = "CompileShader" ->
            [g EXCEPT !.compiled = IF c.a[1] # 0 /\ c.a[2]
                                   THEN @ \cup {c.a[1]} ELSE @ \ {c.a[1]}]
      [] c.f = "AttachShader" ->
            IF c.a[1] # 0 /\ c.a[2] # 0
            THEN [g EXCEPT !.attached = @ \cup {<<c.a[1], c.a[2]>>}]
            ELSE g
      [] c.f = "DetachShader" -> [g EXCEPT !.attached = @ \ {<<c.a[1], c.a[2]>>}]
      [] c.f = "LinkProgram" ->
            LET stages == {p[2] : p \in {q \in g.attached : q[1] = c.a[1]}}
            IN  [g EXCEPT !.linked =
                    IF c.a[1] # 0 /\ c.a[2] /\ Cardinality(stages) >= 2
                                 /\ stages \subseteq g.compiled
                    THEN @ \cup {c.a[1]} ELSE @ \ {c.a[1]}]
      [] c.f = "CallUserCallback" ->
            IF c.a[2] = "activeTexture" THEN [g EXCEPT !.activeTexture = 1] ELSE g
      [] c.f = "DeleteShader" -> [g EXCEPT !.shaderObjects = @ \ {c.a[1]},
                                           !.compiled = @ \ {c.a[1]}]
      [] c.f = "DeleteProgram" ->
            [g EXCEPT !.shaderObjects = @ \ {c.a[1]},
                      !.linked = @ \ {c.a[1]},
                      !.attached = {p \in @ : p[1] # c.a[1]}]
      [] c.f = "GenBuffers" -> [g EXCEPT !.buffers = @ \cup ({c.a[1]} \ {0})]
      [] c.f = "DeleteBuffers" ->
            [g EXCEPT !.buffers = @ \ {c.a[1]},
                      !.arrayBuffer = IF @ = c.a[1] THEN 0 ELSE @,
                      !.elementArrayBuffer[g.vertexArray] = IF @ = c.a[1] THEN 0 ELSE @]
      [] c.f = "GenTextures" -> [g EXCEPT !.textures = @ \cup ({c.a[1]} \ {0})]
      [] c.f = "DeleteTextures" ->
            [g EXCEPT !.textures = @ \ {c.a[1]},
                      !.texture2D = [u \in TextureUnits |->
                                       IF @[u] = c.a[1] THEN 0 ELSE @[u]]]
      [] OTHER -> g

\* What a query returns: one value, or the values of an array.
GLQuery(g, pname) ==
    CASE pname = "ACTIVE_TEXTURE" -> <<g.activeTexture>>
      [] pname = "CURRENT_PROGRAM" -> <<g.program>>
      [] pname = "TEXTURE_BINDING_2D" -> <<g.texture2D[g.activeTexture]>>
      [] pname = "SAMPLER_BINDING" -> <<g.sampler[g.activeTexture]>>
      [] pname = "ARRAY_BUFFER_BINDING" -> <<g.arrayBuffer>>
      [] pname = "ELEMENT_ARRAY_BUFFER_BINDING" -> <<g.elementArrayBuffer[g.vertexArray]>>
      [] pname = "VERTEX_ARRAY_BINDING" -> <<g.vertexArray>>
      [] pname = "POLYGON_MODE" -> g.polygonMode
      [] pname = "VIEWPORT" -> g.viewport
      [] pname = "SCISSOR_BOX" -> g.scissorBox
      [] pname = "BLEND_SRC_RGB" -> <<g.blendSrcRGB>>
      [] pname = "BLEND_DST_RGB" -> <<g.blendDstRGB>>
      [] pname = "BLEND_SRC_ALPHA" -> <<g.blendSrcAlpha>>
      [] pname = "BLEND_DST_ALPHA" -> <<g.blendDstAlpha>>
      [] pname = "BLEND_EQUATION_RGB" -> <<g.blendEquationRGB>>
      [] pname = "BLEND_EQUATION_ALPHA" -> <<g.blendEquationAlpha>>
      [] pname \in Capabilities -> <<g.enabled[pname]>>

\* The location a linked program reports for a uniform or an attribute.
LocationOf(name) ==
    CASE name = "Texture" -> 0
      [] name = "ProjMtx" -> 1
      [] name = "Position" -> 0
      [] name = "UV" -> 1
      [] name = "Color" -> 2

\* The names in use of the kind a creation call allocates.
UsedNames(g, f) ==
    CASE f \in {"CreateProgram", "CreateShader"} -> g.shaderObjects
      [] f = "GenBuffers" -> g.buffers
      [] f = "GenTextures" -> g.textures
      [] f = "GenVertexArrays" -> g.vertexArrays

\* The smallest name of 1..n that is not in used.
FreshName(used) == CHOOSE n \in 1 .. (Cardinality(used) + 1) :
                      n \notin used /\ \A k \in 1 .. (n - 1) : k \in used

(* The statements of a function body that touch the context, as data.  A    *)
(* statement names the call and its arguments; refs says which arguments    *)
(* are read from a local variable of the function (argument position to     *)
(* variable name), dst which local variables receive the result.            *)
(*   call     f(a)                                                          *)
(*   get      gl.GetIntegerv(a[1], &dst) / dst := gl.IsEnabled(a[1])        *)
(*   loc      dst := gl.GetUniformLocation / GetAttribLocation(a[1], a[2])  *)
(*   create   dst := the name the creation call f returns (0 when a[last]   *)
(*            is FALSE: the creation failed)                                *)
(*   enableIf if a[2] { gl.Enable(a[1]) } else { gl.Disable(a[1]) }         *)
Stmt(k, f, a, refs, dst) == [k |-> k, f |-> f, a |-> a, refs |-> refs, dst |-> dst]
Do(f, a) == Stmt("call", f, a, <<>>, <<>>)
DoWith(f, a, refs) == Stmt("call", f, a, refs, <<>>)
GetIntegerv(pname, dst) == Stmt("get", "GetIntegerv", <<pname>>, <<>>, dst)
IsEnabled(cap, dst) == Stmt("get", "IsEnabled", <<cap>>, <<>>, <<dst>>)
GetLocation(f, name, dst) == Stmt("loc", f, <<0, name>>, (1 :> "shaderHandle"), <<dst>>)
Create(f, a, ok, dst) == Stmt("create", f, Append(a, ok), <<>>, <<dst>>)
EnableIf(cap, var) == Stmt("enableIf", "Enable", <<cap, FALSE>>, (2 :> var), <<>>)

\* The arguments of a statement with the local variables read.
Resolve(st, reg) ==
    [i \in DOMAIN st.a |-> IF i \in DOMAIN st.refs THEN reg[st.refs[i]] ELSE st.a[i]]

\* reg with the variables of dst set to vals.
Assign(reg, dst, vals) ==
    [n \in (DOMAIN reg) \cup {dst[i] : i \in DOMAIN dst} |->
        IF \E i \in DOMAIN dst : dst[i] = n
        THEN vals[CHOOSE i \in DOMAIN dst : dst[i] = n]
        ELSE reg[n]]

\* One statement on m = [gl, log, reg]: the context, the calls issued so
\* far and the local variables.
GLExec(m, st) ==
    LET a == Resolve(st, m.reg)
    IN  CASE st.k = "call" ->
               [m EXCEPT !.gl = GLApply(m.gl, GLCall(st.f, a)),
                         !.log = Append(m.log, GLCall(st.f, a))]
          [] st.k = "get" ->
               [m EXCEPT !.log = Append(m.log, GLCall(st.f, a)),
                         !.reg = Assign(m.reg, st.dst, GLQuery(m.gl, a[1]))]
          [] st.k = "loc" ->
               [m EXCEPT !.log = Append(m.log, GLCall(st.f, a)),
                         !.reg = Assign(m.reg, st.dst,
                                   <<IF a[1] \in m.gl.linked THEN LocationOf(a[2]) ELSE -1>>)]
          [] st.k = "create" ->
               LET n == Len(a)
                   name == IF a[n] THEN FreshName(UsedNames(m.gl, st.f)) ELSE 0
                   c == GLCall(st.f, [a EXCEPT ![n] = name])
               IN  [gl |-> GLApply(m.gl, c),
                    log |-> Append(m.log, c),
                    reg |-> Assign(m.reg, st.dst, <<name>>)]
          [] st.k = "enableIf" ->
               LET c == GLCall(IF a[2] THEN "Enable" ELSE "Disable", <<a[1]>>)
               IN  [m EXCEPT !.gl = GLApply(m.gl, c), !.log = Append(m.log, c)]

\* The statements lo..hi of sts in order, the first half before the second
\* (the test on the log makes TLC compute the first half before it enters
\* the second: the log never shrinks).
RECURSIVE GLRunRange(_, _, _, _)
GLRunRange(m, sts, lo, hi) ==
    IF lo > hi THEN m
    ELSE IF lo = hi THEN GLExec(m, sts[lo])
    ELSE LET mid == (lo + hi) \div 2
             first == GLRunRange(m, sts, lo, mid)
         IN  IF Len(first.log) >= Len(m.log)
             THEN GLRunRange(first, sts, mid + 1, hi)
             ELSE first

\* The statements of sts in order.
GLRun(m, sts) == GLRunRange(m, sts, 1, Len(sts))

\* A function entered on context g with local variables reg.
Enter(g, reg) == [gl |-> g, log |-> <<>>, reg |-> reg]

-----------------------------------------------------------------------------
(* GPU resources: createDeviceObjects, createFontsTexture,                  *)
(* invalidateDeviceObjects                                                  *)

\* What the driver answers to the creation calls of one createDeviceObjects:
\* whether CreateProgram, the two CreateShader, the two GenBuffers and
\* GenTextures hand out a name (a failed creation leaves 0), whether each
\* shader compiles and whether the program links.
Outcomes ==
    [ program : BOOLEAN, vert : BOOLEAN, frag : BOOLEAN,
      vbo : BOOLEAN, elements : BOOLEAN, font : BOOLEAN,
      vertCompiles : BOOLEAN, fragCompiles : BOOLEAN, links : BOOLEAN ]

AllSucceed ==
    [ program |-> TRUE, vert |-> TRUE, frag |-> TRUE,
      vbo |-> TRUE, elements |-> TRUE, font |-> TRUE,
      vertCompiles |-> TRUE, fragCompiles |-> TRUE, links |-> TRUE ]

\* A createFontsTexture that leaves the font texture bound.
createFontsTexture_NoRestore(o) ==
    << GetIntegerv("TEXTURE_BINDING_2D", <<"font.lastTexture">>),
       Create("GenTextures", <<>>, o.font, "fontTexture"),
       DoWith("BindTexture", <<"TEXTURE_2D", 0>>, (2 :> "fontTexture")),
       Do("TexParameteri", <<"TEXTURE_2D", "TEXTURE_MIN_FILTER", "LINEAR">>),
       Do("TexParameteri", <<"TEXTURE_2D", "TEXTURE_MAG_FILTER", "LINEAR">>),
       Do("PixelStorei", <<"UNPACK_ROW_LENGTH", 0>>),
       Do("TexImage2D", <<"TEXTURE_2D", "RED">>),
       DoWith("SetTextureID", <<0>>, (1 :> "fontTexture")) >>

\* createFontsTexture.  lastTexture is its own local variable.
createFontsTexture(o) ==
    << GetIntegerv("TEXTURE_BINDING_2D", <<"font.lastTexture">>),
       Create("GenTextures", <<>>, o.font, "fontTexture"),
       DoWith("BindTexture", <<"TEXTURE_2D", 0>>, (2 :> "fontTexture")),
       Do("TexParameteri", <<"TEXTURE_2D", "TEXTURE_MIN_FILTER", "LINEAR">>),
       Do("TexParameteri", <<"TEXTURE_2D", "TEXTURE_MAG_FILTER", "LINEAR">>),
       Do("PixelStorei", <<"UNPACK_ROW_LENGTH", 0>>),
       Do("TexImage2D", <<"TEXTURE_2D", "RED">>),
       DoWith("SetTextureID", <<0>>, (1 :> "fontTexture")),
       DoWith("BindTexture", <<"TEXTURE_2D", 0>>, (2 :> "font.lastTexture")) >>

\* createDeviceObjects, the driver answering o.  No status is queried after
\* CompileShader and LinkProgram.
createDeviceObjects(o) ==
    << GetIntegerv("TEXTURE_BINDING_2D", <<"lastTexture">>),
       GetIntegerv("ARRAY_BUFFER_BINDING", <<"lastArrayBuffer">>),
       GetIntegerv("VERTEX_ARRAY_BINDING", <<"lastVertexArray">>),
       Create("CreateProgram", <<>>, o.program, "shaderHandle"),
       Create("CreateShader", <<"VERTEX_SHADER">>, o.vert, "vertHandle"),
       Create("CreateShader", <<"FRAGMENT_SHADER">>, o.frag, "fragHandle"),
       DoWith("ShaderSource", <<0, "main.vert">>, (1 :> "vertHandle")),
       DoWith("ShaderSource", <<0, "main.frag">>, (1 :> "fragHandle")),
       DoWith("CompileShader", <<0, o.vertCompiles>>, (1 :> "vertHandle")),
       DoWith("CompileShader", <<0, o.fragCompiles>>, (1 :> "fragHandle")),
       DoWith("AttachShader", <<0, 0>>, (1 :> "shaderHandle") @@ (2 :> "vertHandle")),
       DoWith("AttachShader", <<0, 0>>, (1 :> "shaderHandle") @@ (2 :> "fragHandle")),
       DoWith("LinkProgram", <<0, o.links>>, (1 :> "shaderHandle")),
       GetLocation("GetUniformLocation", "Texture", "attribLocationTex"),
       GetLocation("GetUniformLocation", "ProjMtx", "attribLocationProjMtx"),
       GetLocation("GetAttribLocation", "Position", "attribLocationPosition"),
       GetLocation("GetAttribLocation", "UV", "attribLocationUV"),
       GetLocation("GetAttribLocation", "Color", "attribLocationColor"),
       Create("GenBuffers", <<>>, o.vbo, "vboHandle"),
       Create("GenBuffers", <<>>, o.elements, "elementsHandle") >>
    \o createFontsTexture(o)
    \o << DoWith("BindTexture", <<"TEXTURE_2D", 0>>, (2 :> "lastTexture")),
          DoWith("BindBuffer", <<"ARRAY_BUFFER", 0>>, (2 :> "lastArrayBuffer")),
          DoWith("BindVertexArray", <<0>>, (1 :> "lastVertexArray")) >>

\* The fields of the struct that createDeviceObjects assigns.
DeviceFields ==
    { "shaderHandle", "vertHandle", "fragHandle", "attribLocationTex",
      "attribLocationProjMtx", "attribLocationPosition", "attribLocationUV",
      "attribLocationColor", "vboHandle", "elementsHandle", "fontTexture" }

\* The struct u after createDeviceObjects ended with the variables reg.
WithDeviceFields(u, reg) ==
    [f \in DOMAIN u |-> IF f \in DeviceFields THEN reg[f] ELSE u[f]]

\* The error NewIMUI returns to its caller: glfw returns ui, nil and the sdl
\* NewIMUI has no error result at all.
NewIMUIError(b, o) == "nil"

\* A list of one statement, or none.
When(cond, st) == IF cond THEN <<st>> ELSE <<>>

\* An invalidateDeviceObjects that detaches a stage without asking for the
\* program.
invalidateDeviceObjects_DetachUnguarded(u) ==
       When(u.vboHandle # 0, Do("DeleteBuffers", <<u.vboHandle>>))
    \o When(u.elementsHandle # 0, Do("DeleteBuffers", <<u.elementsHandle>>))
    \o When(u.vertHandle # 0, Do("DetachShader", <<u.shaderHandle, u.vertHandle>>))
    \o When(u.vertHandle # 0, Do("DeleteShader", <<u.vertHandle>>))
    \o When(u.fragHandle # 0, Do("DetachShader", <<u.shaderHandle, u.fragHandle>>))
    \o When(u.fragHandle # 0, Do("DeleteShader", <<u.fragHandle>>))
    \o When(u.shaderHandle # 0, Do("DeleteProgram", <<u.shaderHandle>>))
    \o When(u.fontTexture # 0, Do("DeleteTextures", <<u.fontTexture>>))
    \o When(u.fontTexture # 0, Do("SetTextureID", <<0>>))

\* invalidateDeviceObjects on the struct u, in its order.  ui.shaderHandle is
\* set to 0 only after both stages were handled, so both detach guards read
\* the handle the function was entered with; every handle is 0 afterwards.
invalidateDeviceObjects(u) ==
       When(u.vboHandle # 0, Do("DeleteBuffers", <<u.vboHandle>>))
    \o When(u.elementsHandle # 0, Do("DeleteBuffers", <<u.elementsHandle>>))
    \o When(u.shaderHandle # 0 /\ u.vertHandle # 0,
            Do("DetachShader", <<u.shaderHandle, u.vertHandle>>))
    \o When(u.vertHandle # 0, Do("DeleteShader", <<u.vertHandle>>))
    \o When(u.shaderHandle # 0 /\ u.fragHandle # 0,
            Do("DetachShader", <<u.shaderHandle, u.fragHandle>>))
    \o When(u.fragHandle # 0, Do("DeleteShader", <<u.fragHandle>>))
    \o When(u.shaderHandle # 0, Do("DeleteProgram", <<u.shaderHandle>>))
    \o When(u.fontTexture # 0, Do("DeleteTextures", <<u.fontTexture>>))
    \o When(u.fontTexture # 0, Do("SetTextureID", <<0>>))

\* An invalidateDeviceObjects that forgets to clear the font texture.
Invalidated_KeepsFontTexture(u) ==
    [u EXCEPT !.vboHandle = 0, !.elementsHandle = 0, !.vertHandle = 0,
              !.fragHandle = 0, !.shaderHandle = 0]

\* The handles of the struct, all 0.
Invalidated(u) ==
    [u EXCEPT !.vboHandle = 0, !.elementsHandle = 0, !.vertHandle = 0,
              !.fragHandle = 0, !.shaderHandle = 0, !.fontTexture = 0]

\* The positions of the call f(a) in the log.
CallsOf(log, f, a) == {i \in DOMAIN log : log[i].f = f /\ log[i].a = a}

\* The positions of the calls of the functions fs in the log.
CallsTo(log, fs) == {i \in DOMAIN log : log[i].f \in fs}

\* The functions that release an object.
Releases == {"DeleteBuffers", "DeleteShader", "DeleteProgram", "DeleteTextures"}

\* The calls of a log that go to the graphics API, and the texture id the
\* log registers with the font atlas (imguiIO.Fonts().SetTextureID).
IsGLCall(c) == c.f # "SetTextureID" /\ c.f # "CallUserCallback"
FontTexID(log, old) ==
    LET sets == {i \in DOMAIN log : log[i].f = "SetTextureID"}
    IN  IF sets = {} THEN old
        ELSE log[CHOOSE i \in sets : \A j \in sets : j <= i].a[1]

\* NewIMUI: builds the struct and creates the device objects.
NewIMUI ==
    /\ op.name = "start"
    /\ \E o \in Outcomes :
         LET m == GLRun(Enter(gl, <<>>), createDeviceObjects(o))
         IN  /\ ui' = WithDeviceFields(NewUI, m.reg)
             /\ gl' = m.gl
             /\ glLog' = m.log
             /\ io' = WithKeyMapping(backend,
                                     [NewIO EXCEPT !.fontTexID = FontTexID(m.log, @)])
             /\ op' = [name |-> "NewIMUI", err |-> NewIMUIError(backend, o)]
    /\ UNCHANGED <<backend, host, hist, drv>>

\* Dispose: invalidateDeviceObjects.
Dispose ==
    /\ op.name # "start"
    /\ LET m == GLRun(Enter(gl, <<>>), invalidateDeviceObjects(ui))
       IN  /\ ui' = Invalidated(ui)
           /\ gl' = m.gl
           /\ glLog' = m.log
           /\ io' = [io EXCEPT !.fontTexID = FontTexID(m.log, @)]
           /\ hist' = [hist EXCEPT
                         !.disposed = TRUE,
                         !.released = @ \cup {m.log[i] : i \in CallsTo(m.log, Releases)}]
    /\ op' = [name |-> "Dispose", pre |-> ui]
    /\ UNCHANGED <<backend, host, drv>>

InitDevice ==
    /\ backend \in Backends
    /\ ui = NewUI
    /\ io = NewIO
    /\ host = NewHost
    /\ gl = NewGL
    /\ glLog = <<>>
    /\ op = [name |-> "start"]
    /\ hist = NewHist
    /\ drv = <<>>

NextDevice ==
    \/ NewIMUI
    \/ Dispose

SpecDevice == InitDevice /\ [][NextDevice]_vars

-----------------------------------------------------------------------------
(* The draw data the library hands to Render *)

\* cmd.ElementCount() of the commands of the model: one, two and four
\* triangles' worth of indices.
ElemCounts == {3, 6, 12}

Abs(n) == IF n < 0 THEN -n ELSE n

RECURSIVE GCD(_, _)
GCD(a, b) == IF b = 0 THEN a ELSE GCD(b, a % b)

\* The fraction n/d, d > 0, in lowest terms.
Frac(n, d) ==
    LET g == GCD(Abs(n), d)
    IN  IF g = 0 THEN <<0, 1>> ELSE <<n \div g, d \div g>>

\* float32 product p * (a/b) and difference p - q of fractions.
FracScale(p, a, b) == Frac(p[1] * a, p[2] * b)
FracSub(p, q) == Frac(p[1] * q[2] - q[1] * p[2], p[2] * q[2])

\* int32(f) of a float32: the fraction is truncated towards zero.
Int32(p) == IF p[1] >= 0 THEN p[1] \div p[2] ELSE -((-p[1]) \div p[2])

\* A draw command.  callback is "none" for a command without user callback,
\* otherwise what the callback does to the context: "quiet" touches nothing,
\* "activeTexture" selects texture unit 1 and leaves it selected.
\* The clip rectangle is an imgui.Vec4 of float32 <<X, Y, Z, W>>: a
\* component is kept as the fraction <<numerator, denominator>> in lowest
\* terms that it is exactly (the display sizes of the model are powers of
\* two or equal to the framebuffer's, so every product is a float32).
DrawCmd(n, cb, tex, clip) ==
    [elemCount |-> n, callback |-> cb, textureID |-> tex,
     clipRect |-> [i \in 1 .. 4 |-> Frac(clip[i], 1)]]

\* The number of commands of draw data dd.
RECURSIVE CmdCount(_)
CmdCount(dd) == IF dd = <<>> THEN 0 ELSE Len(Head(dd)) + CmdCount(Tail(dd))

\* drawData.ScaleClipRects(scale): every clip rectangle <<X, Y, Z, W>> is
\* multiplied by fb/display, X and Z by the ratio of the widths, Y and W by
\* the ratio of the heights.
ScaleClipRect(clip, displayWidth, displayHeight, fbWidth, fbHeight) ==
    << FracScale(clip[1], fbWidth, displayWidth),
       FracScale(clip[2], fbHeight, displayHeight),
       FracScale(clip[3], fbWidth, displayWidth),
       FracScale(clip[4], fbHeight, displayHeight) >>

ScaleClipRects(dd, displayWidth, displayHeight, fbWidth, fbHeight) ==
    [li \in DOMAIN dd |->
       [k \in DOMAIN dd[li] |->
          [dd[li][k] EXCEPT !.clipRect =
              ScaleClipRect(@, displayWidth, displayHeight, fbWidth, fbHeight)]]]

\* A widget call of the frame adds a command to the list being built.
AddDrawCmd(c) ==
    /\ io.frameOpen
    /\ io.drawData # <<>>
    /\ CmdCount(io.drawData) < MaxCmds
    /\ io' = [io EXCEPT !.drawData[Len(io.drawData)] = Append(@, c)]
    /\ glLog' = <<>>
    /\ op' = [name |-> "AddDrawCmd"]
    /\ UNCHANGED <<backend, ui, host, gl, hist, drv>>

\* A widget call of the frame starts the command list of another window.
AddDrawList(c) ==
    /\ io.frameOpen
    /\ CmdCount(io.drawData) < MaxCmds
    /\ io' = [io EXCEPT !.drawData = Append(@, <<c>>)]
    /\ glLog' = <<>>
    /\ op' = [name |-> "AddDrawList"]
    /\ UNCHANGED <<backend, ui, host, gl, hist, drv>>

-----------------------------------------------------------------------------
(* IMUI.Render *)

\* A guard that looks at the width alone.
Minimized_WidthOnly(fbWidth, fbHeight) == fbWidth <= 0

\* if (fbWidth <= 0) || (fbHeight <= 0) { return }
Minimized(fbWidth, fbHeight) == (fbWidth <= 0) \/ (fbHeight <= 0)

\* Backup GL state.  ACTIVE_TEXTURE is read first; the other bindings are
\* read with texture unit 0 selected.  POLYGON_MODE, VIEWPORT and
\* SCISSOR_BOX fill arrays.
RenderBackup ==
    << GetIntegerv("ACTIVE_TEXTURE", <<"lastActiveTexture">>),
       Do("ActiveTexture", <<0>>),
       GetIntegerv("CURRENT_PROGRAM", <<"lastProgram">>),
       GetIntegerv("TEXTURE_BINDING_2D", <<"lastTexture">>),
       GetIntegerv("SAMPLER_BINDING", <<"lastSampler">>),
       GetIntegerv("ARRAY_BUFFER_BINDING", <<"lastArrayBuffer">>),
       GetIntegerv("ELEMENT_ARRAY_BUFFER_BINDING", <<"lastElementArrayBuffer">>),
       GetIntegerv("VERTEX_ARRAY_BINDING", <<"lastVertexArray">>),
       GetIntegerv("POLYGON_MODE", <<"lastPolygonMode[0]", "lastPolygonMode[1]">>),
       GetIntegerv("VIEWPORT", <<"lastViewport[0]", "lastViewport[1]",
                                 "lastViewport[2]", "lastViewport[3]">>),
       GetIntegerv("SCISSOR_BOX", <<"lastScissorBox[0]", "lastScissorBox[1]",
                                    "lastScissorBox[2]", "lastScissorBox[3]">>),
       GetIntegerv("BLEND_SRC_RGB", <<"lastBlendSrcRgb">>),
       GetIntegerv("BLEND_DST_RGB", <<"lastBlendDstRgb">>),
       GetIntegerv("BLEND_SRC_ALPHA", <<"lastBlendSrcAlpha">>),
       GetIntegerv("BLEND_DST_ALPHA", <<"lastBlendDstAlpha">>),
       GetIntegerv("BLEND_EQUATION_RGB", <<"lastBlendEquationRgb">>),
       GetIntegerv("BLEND_EQUATION_ALPHA", <<"lastBlendEquationAlpha">>),
       IsEnabled("BLEND", "lastEnableBlend"),
       IsEnabled("CULL_FACE", "lastEnableCullFace"),
       IsEnabled("DEPTH_TEST", "lastEnableDepthTest"),
       IsEnabled("SCISSOR_TEST", "lastEnableScissorTest") >>

\* Setup render state, viewport and projection, on the struct u and the
\* host's sizes.
RenderSetup(u, displayWidth, displayHeight, fbWidth, fbHeight) ==
    << Do("Enable", <<"BLEND">>),
       Do("BlendEquation", <<"FUNC_ADD">>),
       Do("BlendFunc", <<"SRC_ALPHA", "ONE_MINUS_SRC_ALPHA">>),
       Do("Disable", <<"CULL_FACE">>),
       Do("Disable", <<"DEPTH_TEST">>),
       Do("Enable", <<"SCISSOR_TEST">>),
       Do("PolygonMode", <<"FRONT_AND_BACK", "FILL">>),
       Do("Viewport", <<0, 0, fbWidth, fbHeight>>),
       Do("UseProgram", <<u.shaderHandle>>),
       Do("Uniform1i", <<u.attribLocationTex, 0>>),
       Do("UniformMatrix4fv", <<u.attribLocationProjMtx, displayWidth, displayHeight>>),
       Do("BindSampler", <<0, 0>>) >>

\* Recreate the VAO every time.
RenderVertexArray(u) ==
    << Create("GenVertexArrays", <<>>, TRUE, "vaoHandle"),
       DoWith("BindVertexArray", <<0>>, (1 :> "vaoHandle")),
       Do("BindBuffer", <<"ARRAY_BUFFER", u.vboHandle>>),
       Do("EnableVertexAttribArray", <<u.attribLocationPosition>>),
       Do("EnableVertexAttribArray", <<u.attribLocationUV>>),
       Do("EnableVertexAttribArray", <<u.attribLocationColor>>),
       Do("VertexAttribPointerWithOffset", <<u.attribLocationPosition, 2, "FLOAT">>),
       Do("VertexAttribPointerWithOffset", <<u.attribLocationUV, 2, "FLOAT">>),
       Do("VertexAttribPointerWithOffset", <<u.attribLocationColor, 4, "UNSIGNED_BYTE">>) >>

\* drawType: gl.UNSIGNED_SHORT unless indexSize == bytesPerUint32
DrawType(indexSize) == IF indexSize = 4 THEN "UNSIGNED_INT" ELSE "UNSIGNED_SHORT"

\* An offset that only draw commands advance.
NextIndexBufferOffset_DrawsOnly(cmd, indexSize, indexBufferOffset) ==
    IF cmd.callback # "none"
    THEN indexBufferOffset
    ELSE indexBufferOffset + cmd.elemCount * indexSize

\* indexBufferOffset += uintptr(cmd.ElementCount() * indexSize)
NextIndexBufferOffset(cmd, indexSize, indexBufferOffset) ==
    indexBufferOffset + cmd.elemCount * indexSize

\* A scissor box that takes the clip rectangle's top for its origin, without
\* the flip to the framebuffer's bottom-left origin.
ScissorBox_NoFlip(clipRect, fbHeight) ==
    << Int32(clipRect[1]),
       Int32(clipRect[2]),
       Int32(FracSub(clipRect[3], clipRect[1])),
       Int32(FracSub(clipRect[4], clipRect[2])) >>

\* gl.Scissor(int32(clipRect.X), int32(fbHeight)-int32(clipRect.W),
\*            int32(clipRect.Z-clipRect.X), int32(clipRect.W-clipRect.Y))
ScissorBox(clipRect, fbHeight) ==
    << Int32(clipRect[1]),
       fbHeight - Int32(clipRect[4]),
       Int32(FracSub(clipRect[3], clipRect[1])),
       Int32(FracSub(clipRect[4], clipRect[2])) >>

\* A loop body that draws a command after it has called its callback.
RenderCommand_CallbackAlsoDraws(cmd, li, fbHeight, indexSize, indexBufferOffset) ==
    (IF cmd.callback # "none"
     THEN << Do("CallUserCallback", <<li, cmd.callback>>) >>
     ELSE <<>>)
    \o << Do("BindTexture", <<"TEXTURE_2D", cmd.textureID>>),
           Do("Scissor", ScissorBox(cmd.clipRect, fbHeight)),
           Do("DrawElementsWithOffset",
              <<"TRIANGLES", cmd.elemCount, DrawType(indexSize), indexBufferOffset>>) >>

\* The body of the loop over the commands for command cmd of list li.
RenderCommand(cmd, li, fbHeight, indexSize, indexBufferOffset) ==
    IF cmd.callback # "none"
    THEN << Do("CallUserCallback", <<li, cmd.callback>>) >>
    ELSE << Do("BindTexture", <<"TEXTURE_2D", cmd.textureID>>),
            Do("Scissor", ScissorBox(cmd.clipRect, fbHeight)),
            Do("DrawElementsWithOffset",
               <<"TRIANGLES", cmd.elemCount, DrawType(indexSize), indexBufferOffset>>) >>

\* for _, cmd := range list.Commands(), from offset indexBufferOffset on.
RECURSIVE RenderCommands(_, _, _, _, _)
RenderCommands(cmds, li, fbHeight, indexSize, indexBufferOffset) ==
    IF cmds = <<>> THEN <<>>
    ELSE RenderCommand(Head(cmds), li, fbHeight, indexSize, indexBufferOffset)
         \o RenderCommands(Tail(cmds), li, fbHeight, indexSize,
                NextIndexBufferOffset(Head(cmds), indexSize, indexBufferOffset))

\* for _, list := range drawData.CommandLists(), from list li on:
\* indexBufferOffset is declared in the body, so it is 0 for every list.
RECURSIVE RenderLists(_, _, _, _, _)
RenderLists(u, dd, li, fbHeight, indexSize) ==
    IF li > Len(dd) THEN <<>>
    ELSE << Do("BindBuffer", <<"ARRAY_BUFFER", u.vboHandle>>),
            Do("BufferData", <<"ARRAY_BUFFER", li, "STREAM_DRAW">>),
            Do("BindBuffer", <<"ELEMENT_ARRAY_BUFFER", u.elementsHandle>>),
            Do("BufferData", <<"ELEMENT_ARRAY_BUFFER", li, "STREAM_DRAW">>) >>
         \o RenderCommands(dd[li], li, fbHeight, indexSize, 0)
         \o RenderLists(u, dd, li + 1, fbHeight, indexSize)

\* A restore that selects the saved texture unit before it binds the saved
\* texture.
RenderRestore_ActiveTextureFirst ==
    << DoWith("UseProgram", <<0>>, (1 :> "lastProgram")),
       DoWith("ActiveTexture", <<0>>, (1 :> "lastActiveTexture")),
       DoWith("BindTexture", <<"TEXTURE_2D", 0>>, (2 :> "lastTexture")),
       DoWith("BindSampler", <<0, 0>>, (2 :> "lastSampler")),
       DoWith("BindVertexArray", <<0>>, (1 :> "lastVertexArray")),
       DoWith("BindBuffer", <<"ARRAY_BUFFER", 0>>, (2 :> "lastArrayBuffer")),
       DoWith("BindBuffer", <<"ELEMENT_ARRAY_BUFFER", 0>>, (2 :> "lastElementArrayBuffer")),
       DoWith("BlendEquationSeparate", <<0, 0>>,
              (1 :> "lastBlendEquationRgb") @@ (2 :> "lastBlendEquationAlpha")),
       DoWith("BlendFuncSeparate", <<0, 0, 0, 0>>,
              (1 :> "lastBlendSrcRgb") @@ (2 :> "lastBlendDstRgb")
              @@ (3 :> "lastBlendSrcAlpha") @@ (4 :> "lastBlendDstAlpha")),
       EnableIf("BLEND", "lastEnableBlend"),
       EnableIf("CULL_FACE", "lastEnableCullFace"),
       EnableIf("DEPTH_TEST", "lastEnableDepthTest"),
       EnableIf("SCISSOR_TEST", "lastEnableScissorTest"),
       DoWith("PolygonMode", <<"FRONT_AND_BACK", 0>>, (2 :> "lastPolygonMode[0]")),
       DoWith("Viewport", <<0, 0, 0, 0>>,
              (1 :> "lastViewport[0]") @@ (2 :> "lastViewport[1]")
              @@ (3 :> "lastViewport[2]") @@ (4 :> "lastViewport[3]")),
       DoWith("Scissor", <<0, 0, 0, 0>>,
              (1 :> "lastScissorBox[0]") @@ (2 :> "lastScissorBox[1]")
              @@ (3 :> "lastScissorBox[2]") @@ (4 :> "lastScissorBox[3]")) >>

\* Restore modified GL state, in the order of the code: the texture and the
\* sampler of unit 0 before the texture unit, the vertex array before the
\* element array buffer that belongs to it.
RenderRestore ==
    << DoWith("UseProgram", <<0>>, (1 :> "lastProgram")),
       DoWith("BindTexture", <<"TEXTURE_2D", 0>>, (2 :> "lastTexture")),
       DoWith("BindSampler", <<0, 0>>, (2 :> "lastSampler")),
       DoWith("ActiveTexture", <<0>>, (1 :> "lastActiveTexture")),
       DoWith("BindVertexArray", <<0>>, (1 :> "lastVertexArray")),
       DoWith("BindBuffer", <<"ARRAY_BUFFER", 0>>, (2 :> "lastArrayBuffer")),
       DoWith("BindBuffer", <<"ELEMENT_ARRAY_BUFFER", 0>>, (2 :> "lastElementArrayBuffer")),
       DoWith("BlendEquationSeparate", <<0, 0>>,
              (1 :> "lastBlendEquationRgb") @@ (2 :> "lastBlendEquationAlpha")),
       DoWith("BlendFuncSeparate", <<0, 0, 0, 0>>,
              (1 :> "lastBlendSrcRgb") @@ (2 :> "lastBlendDstRgb")
              @@ (3 :> "lastBlendSrcAlpha") @@ (4 :> "lastBlendDstAlpha")),
       EnableIf("BLEND", "lastEnableBlend"),
       EnableIf("CULL_FACE", "lastEnableCullFace"),
       EnableIf("DEPTH_TEST", "lastEnableDepthTest"),
       EnableIf("SCISSOR_TEST", "lastEnableScissorTest"),
       DoWith("PolygonMode", <<"FRONT_AND_BACK", 0>>, (2 :> "lastPolygonMode[0]")),
       DoWith("Viewport", <<0, 0, 0, 0>>,
              (1 :> "lastViewport[0]") @@ (2 :> "lastViewport[1]")
              @@ (3 :> "lastViewport[2]") @@ (4 :> "lastViewport[3]")),
       DoWith("Scissor", <<0, 0, 0, 0>>,
              (1 :> "lastScissorBox[0]") @@ (2 :> "lastScissorBox[1]")
              @@ (3 :> "lastScissorBox[2]") @@ (4 :> "lastScissorBox[3]")) >>

\* A Render that leaves its vertex array allocated.
RenderStatements_KeepsVertexArray(u, h, dd, indexSize) ==
       RenderBackup
    \o RenderSetup(u, h.size.w, h.size.h, h.fbSize.w, h.fbSize.h)
    \o RenderVertexArray(u)
    \o RenderLists(u, dd, 1, h.fbSize.h, indexSize)
    \o RenderRestore

\* The statements of Render past the guard, for the scaled draw data dd.
RenderStatements(u, h, dd, indexSize) ==
       RenderBackup
    \o RenderSetup(u, h.size.w, h.size.h, h.fbSize.w, h.fbSize.h)
    \o RenderVertexArray(u)
    \o RenderLists(u, dd, 1, h.fbSize.h, indexSize)
    \o << DoWith("DeleteVertexArrays", <<0>>, (1 :> "vaoHandle")) >>
    \o RenderRestore

\* Render.  The host is asked for its sizes (GetFramebufferSize for glfw,
\* GLGetDrawableSize for sdl); a minimized window ends the function there.
\* Otherwise imgui.Render() closes the frame, the clip rectangles of its draw
\* data are scaled in place and the statements run.
Render ==
    /\ hist.renders < MaxRenders
    /\ IF Minimized(host.fbSize.w, host.fbSize.h)
       THEN /\ gl' = gl
            /\ glLog' = <<>>
            /\ io' = io
       ELSE LET drawData == ScaleClipRects(io.drawData, host.size.w, host.size.h,
                                           host.fbSize.w, host.fbSize.h)
                m == GLRun(Enter(gl, <<>>),
                           RenderStatements(ui, host, drawData, io.indexSize))
            IN  /\ gl' = m.gl
                /\ glLog' = m.log
                /\ io' = [io EXCEPT !.drawData = drawData, !.frameOpen = FALSE]
    /\ hist' = [hist EXCEPT
                  !.renders = @ + 1,
                  !.frameEnds = IF Minimized(host.fbSize.w, host.fbSize.h)
                                THEN @ ELSE @ + 1]
    /\ op' = [name |-> "Render"]
    /\ UNCHANGED <<backend, ui, host, drv>>

-----------------------------------------------------------------------------
(* Specifications of Render *)

\* The context and the struct after a NewIMUI in which every creation
\* succeeded: program 1, shaders 2 and 3, buffers 1 and 2, font texture 1.
ReadyMachine == GLRun(Enter(NewGL, <<>>), createDeviceObjects(AllSucceed))
ReadyGL == ReadyMachine.gl
ReadyUI == WithDeviceFields(NewUI, ReadyMachine.reg)
ReadyIO(b) == WithKeyMapping(b, [NewIO EXCEPT !.fontTexID = FontTexID(ReadyMachine.log, @)])

\* The application's own objects next to the UI's: a program, a texture,
\* two buffers and a vertex array whose element array buffer is buffer 4.
App ==
    [ program |-> 4, texture |-> 2, arrayBuffer |-> 3, elementBuffer |-> 4,
      vertexArray |-> 1, sampler |-> 1 ]

WithAppObjects(g) ==
    [g EXCEPT !.shaderObjects = @ \cup {App.program},
              !.linked = @ \cup {App.program},
              !.textures = @ \cup {App.texture},
              !.buffers = @ \cup {App.arrayBuffer, App.elementBuffer},
              !.vertexArrays = @ \cup {App.vertexArray},
              !.elementArrayBuffer = (App.vertexArray :> App.elementBuffer) @@ @]

\* What the application may have bound when it calls Render: nothing; its
\* own objects; or the UI's program, font texture and vertex buffer next to
\* its element buffer on the default vertex array.
ObjectBindings ==
    { [program |-> 0, texture2D |-> <<0, 0>>, sampler |-> <<0, 0>>,
       arrayBuffer |-> 0, vertexArray |-> 0, elementArrayBuffer |-> 0],
      [program |-> App.program, texture2D |-> <<App.texture, App.texture>>,
       sampler |-> <<App.sampler, 0>>, arrayBuffer |-> App.arrayBuffer,
       vertexArray |-> App.vertexArray, elementArrayBuffer |-> 0],
      [program |-> ReadyUI.shaderHandle, texture2D |-> <<ReadyUI.fontTexture, 0>>,
       sampler |-> <<0, App.sampler>>, arrayBuffer |-> ReadyUI.vboHandle,
       vertexArray |-> 0, elementArrayBuffer |-> App.elementBuffer] }

\* The context requests the core profile (src/utils.go:47, and the binding
\* is v3.3-core), in which the polygon mode is one value for both faces.
RasterStates ==
    { [polygonMode |-> <<"FILL", "FILL">>, viewport |-> <<0, 0, 2, 2>>,
       scissorBox |-> <<0, 0, 2, 2>>],
      [polygonMode |-> <<"LINE", "LINE">>, viewport |-> <<1, 1, 1, 1>>,
       scissorBox |-> <<0, 1, 1, 2>>] }

BlendStates ==
    { [srcRGB |-> "ONE", dstRGB |-> "ZERO", srcAlpha |-> "ONE", dstAlpha |-> "ZERO",
       equationRGB |-> "FUNC_ADD", equationAlpha |-> "FUNC_ADD"],
      [srcRGB |-> "SRC_ALPHA", dstRGB |-> "ONE_MINUS_SRC_ALPHA",
       srcAlpha |-> "SRC_ALPHA", dstAlpha |-> "ONE_MINUS_SRC_ALPHA",
       equationRGB |-> "FUNC_ADD", equationAlpha |-> "FUNC_ADD"],
      [srcRGB |-> "SRC_ALPHA", dstRGB |-> "ONE", srcAlpha |-> "ONE", dstAlpha |-> "ZERO",
       equationRGB |-> "FUNC_SUBTRACT", equationAlpha |-> "MAX"] }

\* The context with the application's state set.
WithAppState(g, unit, ob, ra, bl, en) ==
    [g EXCEPT !.activeTexture = unit,
              !.program = ob.program,
              !.texture2D = [u \in TextureUnits |-> ob.texture2D[u + 1]],
              !.sampler = [u \in TextureUnits |-> ob.sampler[u + 1]],
              !.arrayBuffer = ob.arrayBuffer,
              !.vertexArray = ob.vertexArray,
              !.elementArrayBuffer[0] = ob.elementArrayBuffer,
              !.polygonMode = ra.polygonMode,
              !.viewport = ra.viewport,
              !.scissorBox = ra.scissorBox,
              !.blendSrcRGB = bl.srcRGB,
              !.blendDstRGB = bl.dstRGB,
              !.blendSrcAlpha = bl.srcAlpha,
              !.blendDstAlpha = bl.dstAlpha,
              !.blendEquationRGB = bl.equationRGB,
              !.blendEquationAlpha = bl.equationAlpha,
              !.enabled = en]

\* The pipeline states Render is called in.
ExtStates ==
    { WithAppState(WithAppObjects(ReadyGL), unit, ob, ra, bl, en) :
        unit \in TextureUnits, ob \in ObjectBindings, ra \in RasterStates,
        bl \in BlendStates, en \in [Capabilities -> BOOLEAN] }

\* Those with no capability enabled: the pipeline states a minimized window
\* is tried in.
ExtStatesNothingEnabled ==
    {g \in ExtStates : \A c \in Capabilities : ~g.enabled[c]}

\* What the window reports as its size and as the size of its framebuffer:
\* minimized in either direction or both, one framebuffer pixel per screen
\* coordinate, and two (a retina display).
WindowSizes ==
    { [size |-> [w |-> 2, h |-> 2], fbSize |-> [w |-> 0, h |-> 0]],
      [size |-> [w |-> 2, h |-> 2], fbSize |-> [w |-> 0, h |-> 2]],
      [size |-> [w |-> 2, h |-> 2], fbSize |-> [w |-> 2, h |-> 0]],
      [size |-> [w |-> 2, h |-> 2], fbSize |-> [w |-> 2, h |-> 2]],
      [size |-> [w |-> 2, h |-> 2], fbSize |-> [w |-> 4, h |-> 4]] }

\* The draw data of the frames of SpecRender: none; one window drawn with
\* the font texture; two windows, the second with an image of the
\* application and a smaller clip rectangle; a callback that leaves texture
\* unit 1 selected, followed by a draw.
DrawDataSmall ==
    { <<>>,
      << <<DrawCmd(6, "none", 1, <<0, 0, 2, 2>>)>> >>,
      << <<DrawCmd(6, "none", 1, <<0, 0, 2, 2>>), DrawCmd(3, "none", 1, <<0, 0, 1, 1>>)>>,
         <<DrawCmd(12, "none", App.texture, <<1, 0, 2, 1>>)>> >>,
      << <<DrawCmd(3, "activeTexture", 0, <<0, 0, 0, 0>>),
           DrawCmd(6, "none", 1, <<0, 0, 2, 2>>)>> >> }

InitRender ==
    /\ backend \in Backends
    /\ ui = ReadyUI
    /\ \E dd \in DrawDataSmall : io = [ReadyIO(backend) EXCEPT !.drawData = dd]
    /\ \E ws \in WindowSizes :
         /\ host = [NewHost EXCEPT !.size = ws.size, !.fbSize = ws.fbSize]
         /\ gl \in IF Minimized(ws.fbSize.w, ws.fbSize.h)
                   THEN ExtStatesNothingEnabled
                   ELSE ExtStates
    /\ glLog = <<>>
    /\ op = [name |-> "NewIMUI"]
    /\ hist = NewHist
    /\ drv = <<>>

NextRender == Render

SpecRender == InitRender /\ [][NextRender]_vars

\* The frames of the driver loop on a window that changes size: NewFrame,
\* then Render once, as main calls them, with resizes in between.
InitProtocol ==
    /\ backend \in Backends
    /\ ui = ReadyUI
    /\ io = ReadyIO(backend)
    /\ host = NewHost
    /\ gl = ReadyGL
    /\ glLog = <<>>
    /\ op = [name |-> "NewIMUI"]
    /\ hist = NewHist
    /\ drv = <<>>

NextProtocol ==
    \/ ((hist.framed => hist.renders = 1) /\ NewFrame)
    \/ (hist.framed /\ hist.renders = 0 /\ Render)
    \/ \E ws \in WindowSizes : WindowResize(ws)
    \/ Tick

SpecProtocol == InitProtocol /\ [][NextProtocol]_vars

\* The font texture over a life of the backend: NewIMUI in a context that is
\* fresh or has the application's texture bound, then frames and Dispose.
InitFont ==
    /\ backend \in Backends
    /\ ui = NewUI
    /\ io = NewIO
    /\ host = NewHost
    /\ gl \in { NewGL, [WithAppObjects(NewGL) EXCEPT !.texture2D[0] = App.texture] }
    /\ glLog = <<>>
    /\ op = [name |-> "start"]
    /\ hist = NewHist
    /\ drv = <<>>

NextFont ==
    \/ NewIMUI
    \/ (op.name # "start" /\ NewFrame)
    \/ (op.name # "start" /\ Render)
    \/ Dispose

SpecFont == InitFont /\ [][NextFont]_vars

\* imgui.IndexBufferLayout(): the size of an index, fixed when the library
\* is built.
IndexSizes == {2, 4}

\* The commands the widgets of SpecDraw produce: a draw of each element
\* count, the largest with the application's texture and the others with
\* the font texture, and a command with a user callback that stands for
\* three indices.
DrawCmds ==
    { DrawCmd(n, "none", IF n = 12 THEN App.texture ELSE 1, <<0, 0, 2, 2>>) :
        n \in ElemCounts }
    \cup { DrawCmd(3, "quiet", 1, <<0, 0, 2, 2>>) }

InitDraw ==
    /\ backend \in Backends
    /\ ui = ReadyUI
    /\ \E n \in IndexSizes : io = [ReadyIO(backend) EXCEPT !.indexSize = n]
    /\ host = [NewHost EXCEPT !.fbSize = [w |-> 4, h |-> 4]]
    /\ gl = WithAppState(WithAppObjects(ReadyGL), 0,
                         CHOOSE ob \in ObjectBindings : ob.program = App.program,
                         CHOOSE ra \in RasterStates : ra.polygonMode[1] = "FILL",
                         CHOOSE bl \in BlendStates : bl.srcRGB = "ONE",
                         [c \in Capabilities |-> c = "DEPTH_TEST"])
    /\ glLog = <<>>
    /\ op = [name |-> "NewIMUI"]
    /\ hist = NewHist
    /\ drv = <<>>

NextDraw ==
    \/ NewFrame
    \/ \E c \in DrawCmds : AddDrawCmd(c)
    \/ \E c \in DrawCmds : AddDrawList(c)
    \/ Render

SpecDraw == InitDraw /\ [][NextDraw]_vars

\* The clip rectangles of SpecScissor: every rectangle with corners in
\* -1..MaxClip, and the rectangle with top 10 and bottom 50.
ClipRects ==
    { r \in ((-1 .. MaxClip) \X (-1 .. MaxClip) \X (-1 .. MaxClip) \X (-1 .. MaxClip)) :
        r[1] <= r[3] /\ r[2] <= r[4] }
    \cup { <<0, 10, 20, 50>> }

\* The windows of SpecScissor: framebuffer pixels per screen coordinate 1,
\* 3/2, 2, and 2 by 1; and a window of 800 by 600 with ratio 1.
ScissorWindows ==
    { [size |-> [w |-> 2, h |-> 2], fbSize |-> [w |-> 2, h |-> 2]],
      [size |-> [w |-> 2, h |-> 2], fbSize |-> [w |-> 3, h |-> 3]],
      [size |-> [w |-> 2, h |-> 2], fbSize |-> [w |-> 4, h |-> 4]],
      [size |-> [w |-> 2, h |-> 2], fbSize |-> [w |-> 4, h |-> 2]],
      [size |-> [w |-> 800, h |-> 600], fbSize |-> [w |-> 800, h |-> 600]] }

\* One window drawn with two commands, the first with clip rectangle r.
InitScissor ==
    /\ backend \in Backends
    /\ ui = ReadyUI
    /\ \E r \in ClipRects :
         io = [ReadyIO(backend) EXCEPT !.drawData =
                  << <<DrawCmd(6, "none", 1, r), DrawCmd(3, "none", 1, <<0, 0, 1, 2>>)>> >>]
    /\ \E ws \in ScissorWindows :
         host = [NewHost EXCEPT !.size = ws.size, !.fbSize = ws.fbSize]
    /\ gl = WithAppObjects(ReadyGL)
    /\ glLog = <<>>
    /\ op = [name |-> "NewIMUI"]
    /\ hist = NewHist
    /\ drv = <<>>

NextScissor == Render

SpecScissor == InitScissor /\ [][NextScissor]_vars

-----------------------------------------------------------------------------
(* LoadShaders and compileShader of src/utils.go *)

\* A shader handed to LoadShaders: its type and whether the driver compiles
\* its source.
ShaderTypes == {"VERTEX_SHADER", "FRAGMENT_SHADER"}
Shaders == [type : ShaderTypes, compiles : BOOLEAN]

RECURSIVE ShaderListsOf(_)
ShaderListsOf(n) ==
    IF n = 0 THEN { <<>> }
    ELSE { Append(ss, sh) : ss \in ShaderListsOf(n - 1), sh \in Shaders }

\* The slices LoadShaders is called with.
ShaderLists == UNION { ShaderListsOf(n) : n \in 0 .. MaxShaders }

\* The local variable that holds the id of shader i (ss[i].id).
ShaderVar(i) == <<"ss[0].id", "ss[1].id", "ss[2].id", "ss[3].id", "ss[4].id",
                  "ss[5].id", "ss[6].id", "ss[7].id">>[i]

\* compileShader for shader i: creates the shader, compiles it and asks for
\* the status.  A shader that did not compile is returned as 0 with an
\* error; it is not deleted.
compileShader(sh, i) ==
    << Create("CreateShader", <<sh.type>>, TRUE, ShaderVar(i)),
       DoWith("ShaderSource", <<0, "source">>, (1 :> ShaderVar(i))),
       DoWith("CompileShader", <<0, sh.compiles>>, (1 :> ShaderVar(i))) >>

\* The shader at which the first loop of LoadShaders returns with an error,
\* looking from shader i on; 0 when every shader compiles.
RECURSIVE FirstFailure(_, _)
FirstFailure(ss, i) ==
    IF i > Len(ss) THEN 0
    ELSE IF ~ss[i].compiles THEN i
    ELSE FirstFailure(ss, i + 1)

\* The first loop of LoadShaders from shader i to shader last.
RECURSIVE CompileShaders(_, _, _)
CompileShaders(ss, i, last) ==
    IF i > last THEN <<>>
    ELSE compileShader(ss[i], i) \o CompileShaders(ss, i + 1, last)

\* for _, v := range ss { gl.AttachShader(program, v.id) }, from shader i on.
RECURSIVE AttachShaders(_, _)
AttachShaders(n, i) ==
    IF i > n THEN <<>>
    ELSE << DoWith("AttachShader", <<0, 0>>, (1 :> "program") @@ (2 :> ShaderVar(i))) >>
         \o AttachShaders(n, i + 1)

\* The deferred gl.DeleteShader calls of the shaders 1..n, latest first.
RECURSIVE DeleteDeferred(_)
DeleteDeferred(n) ==
    IF n = 0 THEN <<>>
    ELSE << DoWith("DeleteShader", <<0>>, (1 :> ShaderVar(n))) >> \o DeleteDeferred(n - 1)

\* The statements of LoadShaders(ss), the driver linking or not.  On a
\* compile error the function returns with the deletes deferred so far, those
\* of the shaders before the failing one; past the loop it creates, attaches
\* and links the program and returns, on either status, with the deletes of
\* all shaders.
LoadShadersStatements(ss, links) ==
    LET failed == FirstFailure(ss, 1)
    IN  IF Len(ss) < 2 THEN <<>>
        ELSE IF failed # 0
        THEN CompileShaders(ss, 1, failed) \o DeleteDeferred(failed - 1)
        ELSE CompileShaders(ss, 1, Len(ss))
             \o << Create("CreateProgram", <<>>, TRUE, "program") >>
             \o AttachShaders(Len(ss), 1)
             \o << DoWith("LinkProgram", <<0, links>>, (1 :> "program")) >>
             \o DeleteDeferred(Len(ss))

\* LoadShaders(ss) in the context g: the context and the calls it leaves,
\* and the pair it returns.
LoadShaders(g, ss, links) ==
    LET m == GLRun(Enter(g, <<>>), LoadShadersStatements(ss, links))
    IN  IF Len(ss) < 2
        THEN [gl |-> g, log |-> <<>>, program |-> 0, err |-> "at least vertex and fragment"]
        ELSE IF FirstFailure(ss, 1) # 0
        THEN [gl |-> m.gl, log |-> m.log, program |-> 0, err |-> "failed to compile"]
        ELSE IF m.reg["program"] \in m.gl.linked
        THEN [gl |-> m.gl, log |-> m.log, program |-> m.reg["program"], err |-> "nil"]
        ELSE [gl |-> m.gl, log |-> m.log, program |-> 0, err |-> "failed to link program"]

\* A call of LoadShaders in a fresh context.
LoadShadersCall ==
    /\ op.name = "start"
    /\ \E ss \in ShaderLists, links \in BOOLEAN :
         LET r == LoadShaders(gl, ss, links)
         IN  /\ gl' = r.gl
             /\ glLog' = r.log
             /\ op' = [name |-> "LoadShaders", ss |-> ss, links |-> links,
                       before |-> gl.shaderObjects,
                       program |-> r.program, err |-> r.err]
    /\ UNCHANGED <<backend, ui, io, host, hist, drv>>

InitShaders ==
    /\ backend = "sdl"
    /\ ui = NewUI
    /\ io = NewIO
    /\ host = NewHost
    /\ gl \in {NewGL, WithAppObjects(NewGL)}
    /\ glLog = <<>>
    /\ op = [name |-> "start"]
    /\ hist = NewHist
    /\ drv = <<>>

NextShaders == LoadShadersCall

SpecShaders == InitShaders /\ [][NextShaders]_vars

-----------------------------------------------------------------------------
(* The driver: main of src/unnamed/part_000 *)

\* The events the host queues for sdl.PollEvent.
DriverEvents == {"quit", "mouse", "key"}

\* main before its first statement.  pc is the statement main is at;
\* deferred the calls main has deferred, latest first; created says that
\* iu.NewContext has returned, ready that the context holds its GPU
\* resources; disposed, frames and renderedUnready count the calls of
\* Dispose, the frames drawn, and say whether Render was ever called on a
\* context that was not ready; exit is how the process ended.  quitPolled
\* says that the event loop has polled a quit event, forwardedAfterQuit that
\* an event went to ProcessEvent after that, framesAfterQuit counts the
\* Render calls after it; trace is the calls of the current iteration of
\* the loop in order, a run of ProcessEvent calls written once.
NewDriver ==
    [ pc              |-> "initOpenglContext",
      deferred        |-> <<>>,
      created         |-> FALSE,
      ready           |-> FALSE,
      disposed        |-> 0,
      frames          |-> 0,
      renderedUnready |-> FALSE,
      running         |-> TRUE,
      events          |-> <<>>,
      exit            |-> "none",
      quitPolled         |-> FALSE,
      forwardedAfterQuit |-> FALSE,
      framesAfterQuit    |-> 0,
      trace              |-> <<>> ]

\* iuContext.Dispose() on the driver's record.
DriverDispose(d) == [d EXCEPT !.ready = FALSE, !.disposed = @ + 1]

\* The deferred calls of d, run latest first: main defers Dispose alone.
RunDeferred(d) ==
    IF d.deferred = <<>> THEN d
    ELSE [DriverDispose(d) EXCEPT !.deferred = <<>>]

\* log.Fatal and log.Fatalln print and call os.Exit(1): the process ends
\* there and no deferred call runs.
OsExit(d) == [d EXCEPT !.pc = "exited", !.exit = "os.Exit"]

\* panic(err) unwinds main: the deferred calls run, then the process ends.
Panic(d) == [RunDeferred(d) EXCEPT !.pc = "exited", !.exit = "panic"]

\* main returns: the deferred calls run, then the process ends.
Return(d) == [RunDeferred(d) EXCEPT !.pc = "exited", !.exit = "return"]

\* A step of main from d to e.
DriverStep(name, e) ==
    /\ drv' = e
    /\ op' = [name |-> name]
    /\ UNCHANGED <<backend, ui, io, host, gl, glLog, hist>>

\* window, err := initOpenglContext(...); if err != nil { log.Fatal(...) }
InitOpenglContext ==
    /\ drv.pc = "initOpenglContext"
    /\ \E ok \in BOOLEAN :
         DriverStep("initOpenglContext",
                    IF ok THEN [drv EXCEPT !.pc = "NewContext"] ELSE OsExit(drv))

\* iuContext := iu.NewContext(window, nil, true); defer iuContext.Dispose()
NewContext ==
    /\ drv.pc = "NewContext"
    /\ DriverStep("NewContext",
                  [drv EXCEPT !.pc = "loadShader", !.created = TRUE, !.ready = TRUE,
                              !.deferred = <<"Dispose">> \o @])

\* program, err := loadShader(...); if err != nil { panic(err) }
LoadShader ==
    /\ drv.pc = "loadShader"
    /\ \E ok \in BOOLEAN :
         DriverStep("loadShader",
                    IF ok THEN [drv EXCEPT !.pc = "loadTexture"] ELSE Panic(drv))

\* texture, err := loadTexture("square.png"); if err != nil { log.Fatalln(err) }
LoadTexture ==
    /\ drv.pc = "loadTexture"
    /\ \E ok \in BOOLEAN :
         DriverStep("loadTexture",
                    IF ok THEN [drv EXCEPT !.pc = "PollEvent"] ELSE OsExit(drv))

\* The statements of the loop body.
LoopStatements == {"PollEvent", "scene", "NewFrame", "widgets", "Render", "GLSwap"}

\* The host queues an event while the loop runs.
PostEvent(e) ==
    /\ drv.pc \in LoopStatements
    /\ Len(drv.events) < MaxEvents
    /\ DriverStep("PostEvent", [drv EXCEPT !.events = Append(@, e)])

\* d after a call of name in the current iteration.
Called(d, name) ==
    IF name = "ProcessEvent" /\ d.trace # <<>> /\ d.trace[Len(d.trace)] = name
    THEN d
    ELSE [d EXCEPT !.trace = Append(@, name)]

\* An event loop that goes on polling after a quit event.
PollEventStep_NoBreak(d) ==
    IF d.events = <<>>
    THEN [d EXCEPT !.pc = "scene"]
    ELSE LET forwarded ==
                 [Called(d, "ProcessEvent") EXCEPT
                     !.events = Tail(@),
                     !.forwardedAfterQuit = @ \/ d.quitPolled]
         IN  IF Head(d.events) = "quit"
             THEN [forwarded EXCEPT !.running = FALSE, !.quitPolled = TRUE]
             ELSE forwarded

\* One round of the event loop: no event ends it; an event goes to
\* ProcessEvent, and a quit event clears running and breaks out of the loop
\* with the later events still queued.
PollEventStep(d) ==
    IF d.events = <<>>
    THEN [d EXCEPT !.pc = "scene"]
    ELSE LET forwarded ==
                 [Called(d, "ProcessEvent") EXCEPT
                     !.events = Tail(@),
                     !.forwardedAfterQuit = @ \/ d.quitPolled]
         IN  IF Head(d.events) = "quit"
             THEN [forwarded EXCEPT !.running = FALSE, !.quitPolled = TRUE,
                                    !.pc = "scene"]
             ELSE forwarded

PollEvent ==
    /\ drv.pc = "PollEvent"
    /\ DriverStep("PollEvent", PollEventStep(drv))

\* gl.Clear and the 3d scene.
Scene ==
    /\ drv.pc = "scene"
    /\ drv.frames < MaxFrames
    /\ DriverStep("scene", [Called(drv, "scene") EXCEPT !.pc = "NewFrame"])

\* iuContext.NewFrame()
DriverNewFrame ==
    /\ drv.pc = "NewFrame"
    /\ DriverStep("NewFrame", [Called(drv, "NewFrame") EXCEPT !.pc = "widgets"])

\* The widget calls between NewFrame and Render.
Widgets ==
    /\ drv.pc = "widgets"
    /\ DriverStep("widgets", [Called(drv, "widgets") EXCEPT !.pc = "Render"])

\* iuContext.Render()
DriverRender ==
    /\ drv.pc = "Render"
    /\ DriverStep("Render",
         [Called(drv, "Render") EXCEPT
             !.frames = @ + 1,
             !.renderedUnready = @ \/ ~drv.ready,
             !.framesAfterQuit = IF drv.quitPolled THEN @ + 1 ELSE @,
             !.pc = "GLSwap"])

\* window.GLSwap() and the test of running at the head of the loop.
GLSwap ==
    /\ drv.pc = "GLSwap"
    /\ DriverStep("GLSwap",
         [drv EXCEPT !.trace = <<>>,
                     !.pc = IF drv.running THEN "PollEvent" ELSE "return"])

\* The end of main.
MainReturn ==
    /\ drv.pc = "return"
    /\ DriverStep("return", Return(drv))

InitDriver ==
    /\ backend = "sdl"
    /\ ui = NewUI
    /\ io = NewIO
    /\ host = NewHost
    /\ gl = <<>>
    /\ glLog = <<>>
    /\ op = [name |-> "start"]
    /\ hist = NewHist
    /\ drv = NewDriver

NextDriver ==
    \/ InitOpenglContext
    \/ NewContext
    \/ LoadShader
    \/ LoadTexture
    \/ \E e \in DriverEvents : PostEvent(e)
    \/ PollEvent
    \/ Scene
    \/ DriverNewFrame
    \/ Widgets
    \/ DriverRender
    \/ GLSwap
    \/ MainReturn

SpecDriver == InitDriver /\ [][NextDriver]_vars

-----------------------------------------------------------------------------
(* Specifications of the frame/input bridge *)

InitBridge ==
    /\ backend \in Backends
    /\ ui = NewUI
    /\ io = WithKeyMapping(backend, NewIO)
    /\ host = NewHost
    /\ gl = <<>>
    /\ glLog = <<>>
    /\ op = [name |-> "NewIMUI"]
    /\ hist = NewHist
    /\ drv = NewDriver

NextMouse ==
    \/ NewFrame
    \/ \E b \in HostButtons : MouseButtonDown(b)
    \/ \E b \in HostButtons : MouseButtonUp(b)

SpecMouse == InitBridge /\ [][NextMouse]_vars

NextFrame ==
    \/ NewFrame
    \/ Tick
    \/ FocusChange
    \/ CursorMove

SpecFrame == InitBridge /\ [][NextFrame]_vars

NextWheel ==
    \E x \in -MaxWheel .. MaxWheel, y \in -MaxWheel .. MaxWheel : MouseWheel(x, y)

SpecWheel == InitBridge /\ [][NextWheel]_vars

NextKeys ==
    \E key \in Keys, action \in {"press", "release", "repeat"}, mods \in EventMods :
        KeyEvent(key, action, mods)

SpecKeys == InitBridge /\ [][NextKeys]_vars

NextClipboard ==
    \/ Text
    \/ \E text \in Texts, ok \in BOOLEAN : SetText(text, ok)
    \/ \E text \in Texts : HostClipboard([available |-> TRUE, text |-> text])
    \/ HostClipboard([available |-> FALSE, text |-> ""])

SpecClipboard == InitBridge /\ [][NextClipboard]_vars


-----------------------------------------------------------------------------
(* Claims about the frame/input bridge *)

\* C1: a button pressed and released again before the next NewFrame is
\* reported as down by that NewFrame, which leaves its latch false, and is
\* reported as not down by the NewFrame after it when no press came in
\* between: the click is reported exactly once.
C1_ShortClickReportedOnce ==
    [][op'.name = "NewFrame" =>
        \A i \in ButtonIndices :
          /\ (hist.pressedSince[i] /\ ~host.down[ButtonIDByIndex(i)])
                => (io'.mouseDown[i] /\ ~ui'.mouseJustPressed[i])
          /\ (hist.shortClick[i] /\ ~hist.pressedSince[i])
                => ~io'.mouseDown[i]]_vars

\* Every button was clicked within one frame gap, reported down once, and the
\* following NewFrame has reported it as not down.
C1_Witness ==
    /\ op.name = "NewFrame"
    /\ \A i \in ButtonIndices :
         hist.afterClick[i] /\ ~io.mouseDown[i] /\ ~ui.mouseJustPressed[i]

\* C2: NewFrame pushes latch[i] OR host-pressed for every button and clears
\* the latch; a latch entry becomes true only by a button-down event of its
\* own button and false only by NewFrame.
C2_DownIsLatchOrHost ==
    [][/\ op'.name = "NewFrame" =>
            \A i \in ButtonIndices :
              /\ io'.mouseDown[i] =
                   (ui.mouseJustPressed[i] \/ host.down[ButtonIDByIndex(i)])
              /\ ~ui'.mouseJustPressed[i]
       /\ \A i \in ButtonIndices :
            ui'.mouseJustPressed[i] # ui.mouseJustPressed[i] =>
              IF ui'.mouseJustPressed[i]
              THEN op' = [name |-> "MouseButtonDown", button |-> ButtonIDByIndex(i)]
              ELSE op'.name = "NewFrame"]_vars

\* One NewFrame met three of the combinations at once: latch and host both
\* set, host only, latch only.
C2_Witness ==
    /\ op.name = "NewFrame"
    /\ op.latch[0] /\ op.hostDown[0]
    /\ ~op.latch[1] /\ op.hostDown[1]
    /\ op.latch[2] /\ ~op.hostDown[2]
    /\ \A i \in ButtonIndices : io.mouseDown[i] /\ ~ui.mouseJustPressed[i]

\* C3: after NewFrame the pushed cursor position is the sentinel when the
\* window has no input focus, and the host's cursor position when it has, in
\* both backends.
C3_SentinelWhenUnfocused ==
    op.name = "NewFrame" =>
        io.mousePos = IF host.focused
                      THEN Vec2(host.cursor.X, host.cursor.Y)
                      ELSE MousePosSentinel

\* C4: the first NewFrame sets the delta time to the fallback whatever the
\* clock reads, every later NewFrame to the clock difference to the previous
\* NewFrame.
C4_FallbackOnlyOnFirstFrame ==
    op.name = "NewFrame" =>
        io.deltaTime = IF op.first
                       THEN fallbackDelta
                       ELSE Float32(host.clock - op.prevClock)

-----------------------------------------------------------------------------
(* Claims about the GPU resources *)

\* 1 for a handle that is allocated, 0 for one that is not.
Allocated(handle) == IF handle # 0 THEN 1 ELSE 0

\* C7: whatever handles are allocated, Dispose deletes exactly the non-zero
\* ones, detaches a stage only when it and the program are non-zero, detaches
\* before the stage and the program are deleted, and ends with every handle 0.
C7_DisposeReleasesExactlyAllocated ==
    op.name = "Dispose" =>
      LET h == op.pre
          detachVert == CallsOf(glLog, "DetachShader", <<h.shaderHandle, h.vertHandle>>)
          detachFrag == CallsOf(glLog, "DetachShader", <<h.shaderHandle, h.fragHandle>>)
          deleteVert == CallsOf(glLog, "DeleteShader", <<h.vertHandle>>)
          deleteFrag == CallsOf(glLog, "DeleteShader", <<h.fragHandle>>)
          deleteProg == CallsOf(glLog, "DeleteProgram", <<h.shaderHandle>>)
      IN  /\ Cardinality(CallsOf(glLog, "DeleteBuffers", <<h.vboHandle>>)) = Allocated(h.vboHandle)
          /\ Cardinality(CallsOf(glLog, "DeleteBuffers", <<h.elementsHandle>>)) = Allocated(h.elementsHandle)
          /\ Cardinality(deleteVert) = Allocated(h.vertHandle)
          /\ Cardinality(deleteFrag) = Allocated(h.fragHandle)
          /\ Cardinality(deleteProg) = Allocated(h.shaderHandle)
          /\ Cardinality(CallsOf(glLog, "DeleteTextures", <<h.fontTexture>>)) = Allocated(h.fontTexture)
          /\ Cardinality(CallsTo(glLog, {"DeleteBuffers", "DeleteShader", "DeleteProgram", "DeleteTextures"}))
               = Allocated(h.vboHandle) + Allocated(h.elementsHandle) + Allocated(h.vertHandle)
                 + Allocated(h.fragHandle) + Allocated(h.shaderHandle) + Allocated(h.fontTexture)
          /\ Cardinality(detachVert) = Allocated(h.shaderHandle) * Allocated(h.vertHandle)
          /\ Cardinality(detachFrag) = Allocated(h.shaderHandle) * Allocated(h.fragHandle)
          /\ Cardinality(CallsTo(glLog, {"DetachShader"}))
               = Allocated(h.shaderHandle) * (Allocated(h.vertHandle) + Allocated(h.fragHandle))
          /\ \A i \in DOMAIN glLog :
               /\ glLog[i].f \in {"DeleteBuffers", "DeleteShader", "DeleteProgram",
                                  "DeleteTextures", "DetachShader", "SetTextureID"}
               /\ IsGLCall(glLog[i]) => \A j \in DOMAIN glLog[i].a : glLog[i].a[j] # 0
          /\ \A d \in detachVert : \A e \in deleteVert \cup deleteProg : d < e
          /\ \A d \in detachFrag : \A e \in deleteFrag \cup deleteProg : d < e
          /\ ui = Invalidated(op.pre)

\* Dispose met a partial set: no program and no vertex buffer, but both
\* stages, the index buffer and the font texture, which it deleted.
C7_Witness ==
    /\ op.name = "Dispose"
    /\ op.pre.shaderHandle = 0 /\ op.pre.vboHandle = 0
    /\ op.pre.vertHandle # 0 /\ op.pre.fragHandle # 0
    /\ op.pre.elementsHandle # 0 /\ op.pre.fontTexture # 0
    /\ Cardinality(CallsTo(glLog, {"DeleteBuffers", "DeleteShader", "DeleteTextures"})) = 4
    /\ CallsTo(glLog, {"DetachShader", "DeleteProgram"}) = {}

\* C8: NewIMUI reports success exactly when both shaders compiled and the
\* program linked, and an error otherwise.
C8_InitFailsOnShaderError ==
    op.name = "NewIMUI" =>
      (op.err = "nil" <=> /\ ui.vertHandle \in gl.compiled
                          /\ ui.fragHandle \in gl.compiled
                          /\ ui.shaderHandle \in gl.linked)

-----------------------------------------------------------------------------
(* Claims about Render *)

\* C5: a Render called while the framebuffer width or height is <= 0 issues
\* no graphics-API call at all and leaves the pipeline state, the IMUI
\* struct and the library's state as they were.
C5_MinimizedRenderIsNoOp ==
    [][(op'.name = "Render" /\ (host.fbSize.w <= 0 \/ host.fbSize.h <= 0))
         => (glLog' = <<>> /\ gl' = gl /\ ui' = ui /\ io' = io)]_vars

\* Render returned at once for a framebuffer of size (2, 0), with draw
\* commands waiting and the application's program bound.
C5_Witness ==
    /\ op.name = "Render"
    /\ host.fbSize.w = 2 /\ host.fbSize.h = 0
    /\ glLog = <<>>
    /\ io.drawData # <<>>
    /\ gl.program = App.program

\* The fields of the context that Render saves.
SavedPipelineState(g) ==
    [ activeTexture      |-> g.activeTexture,
      program            |-> g.program,
      texture            |-> g.texture2D[0],
      sampler            |-> g.sampler[0],
      arrayBuffer        |-> g.arrayBuffer,
      elementArrayBuffer |-> g.elementArrayBuffer[g.vertexArray],
      vertexArray        |-> g.vertexArray,
      polygonMode        |-> g.polygonMode,
      viewport           |-> g.viewport,
      scissorBox         |-> g.scissorBox,
      blendSrcRGB        |-> g.blendSrcRGB,
      blendDstRGB        |-> g.blendDstRGB,
      blendSrcAlpha      |-> g.blendSrcAlpha,
      blendDstAlpha      |-> g.blendDstAlpha,
      blendEquationRGB   |-> g.blendEquationRGB,
      blendEquationAlpha |-> g.blendEquationAlpha,
      enabled            |-> g.enabled ]

NoUserCallbacks(dd) ==
    \A li \in DOMAIN dd : \A k \in DOMAIN dd[li] : dd[li][k].callback = "none"

\* The draw calls of a log, in order.
DrawCalls(log) ==
    LET IsDraw(c) == c.f = "DrawElementsWithOffset"
    IN  SelectSeq(log, IsDraw)

\* C6: a Render with a positive framebuffer size and draw commands without
\* user callbacks leaves every field of the saved pipeline state with the
\* value it had before the call.
C6_RenderRestoresPipelineState ==
    [][(/\ op'.name = "Render"
        /\ host.fbSize.w > 0 /\ host.fbSize.h > 0
        /\ NoUserCallbacks(io.drawData))
         => SavedPipelineState(gl') = SavedPipelineState(gl)]_vars

\* The second Render in a row has drawn two command lists and returned to a
\* pipeline state in which texture unit 1 is selected, the application's
\* objects are bound, lines are rasterized, the blend equations differ and
\* culling and depth test are on while blending and scissor test are off.
C6_Witness ==
    /\ op.name = "Render"
    /\ hist.renders = 2
    /\ Len(io.drawData) = 2
    /\ NoUserCallbacks(io.drawData)
    /\ Len(DrawCalls(glLog)) = 3
    /\ gl.activeTexture = 1
    /\ gl.program = App.program
    /\ gl.vertexArray = App.vertexArray
    /\ gl.polygonMode = <<"LINE", "LINE">>
    /\ gl.blendEquationRGB # gl.blendEquationAlpha
    /\ gl.enabled["CULL_FACE"] /\ gl.enabled["DEPTH_TEST"]
    /\ ~gl.enabled["BLEND"] /\ ~gl.enabled["SCISSOR_TEST"]

\* The positions <<list, command>> of the commands of dd from list li on,
\* in the order of the lists.
RECURSIVE CommandPositions(_, _)
CommandPositions(dd, li) ==
    IF li > Len(dd) THEN <<>>
    ELSE [k \in 1 .. Len(dd[li]) |-> <<li, k>>] \o CommandPositions(dd, li + 1)

\* The positions of the commands that draw.
DrawPositions(dd) ==
    LET Draws(p) == dd[p[1]][p[2]].callback = "none"
    IN  SelectSeq(CommandPositions(dd, 1), Draws)

\* The element counts of the commands before the k-th of list, summed.
RECURSIVE ElementsBefore(_, _)
ElementsBefore(list, k) ==
    IF k <= 1 THEN 0 ELSE ElementsBefore(list, k - 1) + list[k - 1].elemCount

\* C10: the byte offset of every draw is indexSize times the element counts
\* of the commands before it in its own list, callbacks included; indexSize
\* is 2 or 4 and one index type serves the whole Render.
C10_IndexOffsetAccumulates ==
    (op.name = "Render" /\ ~(host.fbSize.w <= 0 \/ host.fbSize.h <= 0)) =>
      LET draws == DrawCalls(glLog)
          pos == DrawPositions(io.drawData)
      IN  /\ io.indexSize \in {2, 4}
          /\ Len(draws) = Len(pos)
          /\ \A i \in DOMAIN draws :
               LET list == io.drawData[pos[i][1]]
                   k == pos[i][2]
               IN  /\ draws[i].a[2] = list[k].elemCount
                   /\ draws[i].a[3] = IF io.indexSize = 2 THEN "UNSIGNED_SHORT"
                                                         ELSE "UNSIGNED_INT"
                   /\ draws[i].a[4] = io.indexSize * ElementsBefore(list, k)

\* Element counts 6, 12, 3 in one list with 16-bit indices were drawn at
\* the offsets 0, 12, 36.
C10_Witness ==
    /\ op.name = "Render"
    /\ io.indexSize = 2
    /\ Len(io.drawData) = 1
    /\ [k \in DOMAIN io.drawData[1] |-> io.drawData[1][k].elemCount] = <<6, 12, 3>>
    /\ NoUserCallbacks(io.drawData)
    /\ [i \in DOMAIN DrawCalls(glLog) |-> DrawCalls(glLog)[i].a[4]] = <<0, 12, 36>>

-----------------------------------------------------------------------------
(* Claims about the driver *)

\* C9: Render is only called on a context that holds its resources, and once
\* the UI context has been created, a process that has ended has executed
\* Dispose exactly once, whichever way it ended.
C9_DisposeOnceOnEveryExit ==
    /\ ~drv.renderedUnready
    /\ drv.disposed <= 1
    /\ (drv.pc = "exited" /\ drv.created) => drv.disposed = 1

-----------------------------------------------------------------------------
(* Claims about the draw loop *)

\* The call before each draw of a log, in the order of the draws.
CallsBeforeDraws(log) ==
    LET IsDrawAt(i) == log[i].f = "DrawElementsWithOffset"
        ids == SelectSeq([i \in 1 .. Len(log) |-> i], IsDrawAt)
    IN  [j \in DOMAIN ids |-> log[ids[j] - 1]]

\* C11 as stated: on the first Render of a frame the scissor rectangle of a
\* draw command with logical clip rectangle (x0, y0, x1, y1) is
\* (x0, H - y1, x1 - x0, y1 - y0), whatever the ratio of framebuffer size to
\* display size.
C11_ScissorFromLogicalClip ==
    [][(/\ op'.name = "Render"
        /\ hist.renders = 0
        /\ host.fbSize.w > 0 /\ host.fbSize.h > 0)
         => LET before == CallsBeforeDraws(glLog')
                pos == DrawPositions(io.drawData)
            IN  /\ Len(before) = Len(pos)
                /\ \A j \in DOMAIN before :
                     LET clip == io.drawData[pos[j][1]][pos[j][2]].clipRect
                     IN  /\ before[j].f = "Scissor"
                         /\ before[j].a = << Int32(clip[1]),
                                             host.fbSize.h - Int32(clip[4]),
                                             Int32(FracSub(clip[3], clip[1])),
                                             Int32(FracSub(clip[4], clip[2])) >>]_vars

\* C11 (amended): the scissor rectangle of a draw command whose clip
\* rectangle is (x0, y0, x1, y1) at the call is, with sx and sy the ratios of
\* framebuffer to display width and height and every term truncated to an
\* integer, (sx*x0, H - sy*y1, sx*(x1 - x0), sy*(y1 - y0)).
C11_ScissorFromScaledClip ==
    [][(/\ op'.name = "Render"
        /\ host.fbSize.w > 0 /\ host.fbSize.h > 0)
         => LET before == CallsBeforeDraws(glLog')
                pos == DrawPositions(io.drawData)
            IN  /\ Len(before) = Len(pos)
                /\ \A j \in DOMAIN before :
                     LET clip == io.drawData[pos[j][1]][pos[j][2]].clipRect
                         width == FracSub(clip[3], clip[1])
                         height == FracSub(clip[4], clip[2])
                     IN  /\ before[j].f = "Scissor"
                         /\ before[j].a =
                              << Int32(Frac(clip[1][1] * host.fbSize.w,
                                            clip[1][2] * host.size.w)),
                                 host.fbSize.h - Int32(Frac(clip[4][1] * host.fbSize.h,
                                                            clip[4][2] * host.size.h)),
                                 Int32(Frac(width[1] * host.fbSize.w,
                                            width[2] * host.size.w)),
                                 Int32(Frac(height[1] * host.fbSize.h,
                                            height[2] * host.size.h)) >>]_vars

\* With a framebuffer 600 high and ratio 1, the command with top 10 and
\* bottom 50 was drawn with scissor origin Y = 550 and height 40.
C11_Witness ==
    /\ op.name = "Render"
    /\ host.fbSize.h = 600
    /\ \E i \in DOMAIN glLog :
         /\ glLog[i] = GLCall("Scissor", <<0, 550, 20, 40>>)
         /\ glLog[i + 1].f = "DrawElementsWithOffset"

\* The positions in a log of the calls that act on a command: the user
\* callbacks and the draws, in order.
CommandActions(log) ==
    LET ActsAt(i) == log[i].f \in {"CallUserCallback", "DrawElementsWithOffset"}
    IN  SelectSeq([i \in 1 .. Len(log) |-> i], ActsAt)

\* The positions in a log of the uploads of list li.
UploadsOf(log, li) ==
    {i \in DOMAIN log : log[i].f = "BufferData" /\ log[i].a[2] = li}

\* C12: the callbacks and draws of a Render are, one per command, the
\* commands in the order of the lists and of each list: a command with a
\* user callback is one call of the callback with its list and no draw, any
\* other command one draw of its element count with its texture bound just
\* before; both buffers of a list are uploaded once, after the commands of
\* the lists before it and before its own.
C12_CommandsInSuppliedOrder ==
    (op.name = "Render" /\ ~(host.fbSize.w <= 0 \/ host.fbSize.h <= 0)) =>
      LET acts == CommandActions(glLog)
          pos == CommandPositions(io.drawData, 1)
      IN  /\ Len(acts) = Len(pos)
          /\ \A j \in DOMAIN acts :
               LET cmd == io.drawData[pos[j][1]][pos[j][2]]
                   c == glLog[acts[j]]
               IN  /\ IF cmd.callback # "none"
                      THEN c = GLCall("CallUserCallback", <<pos[j][1], cmd.callback>>)
                      ELSE /\ c.f = "DrawElementsWithOffset"
                           /\ c.a[1] = "TRIANGLES"
                           /\ c.a[2] = cmd.elemCount
                           /\ glLog[acts[j] - 2] =
                                GLCall("BindTexture", <<"TEXTURE_2D", cmd.textureID>>)
                   /\ \A i \in UploadsOf(glLog, pos[j][1]) : i < acts[j]
                   /\ \A li \in (pos[j][1] + 1) .. Len(io.drawData) :
                        \A i \in UploadsOf(glLog, li) : acts[j] < i
          /\ \A li \in DOMAIN io.drawData :
               {glLog[i].a[1] : i \in UploadsOf(glLog, li)}
                   = {"ARRAY_BUFFER", "ELEMENT_ARRAY_BUFFER"}
               /\ Cardinality(UploadsOf(glLog, li)) = 2
          /\ Cardinality(CallsTo(glLog, {"BufferData"})) = 2 * Len(io.drawData)

\* Two lists were rendered, the first a callback followed by a draw with the
\* application's texture, the second a draw with the font texture.
C12_Witness ==
    /\ op.name = "Render"
    /\ Len(io.drawData) = 2
    /\ Len(io.drawData[1]) = 2
    /\ io.drawData[1][1].callback = "quiet"
    /\ io.drawData[1][2].textureID = App.texture
    /\ io.drawData[2][1].textureID = 1
    /\ io.drawData[2][1].callback = "none"
    /\ Len(CommandActions(glLog)) = 3
    /\ Len(DrawCalls(glLog)) = 2

-----------------------------------------------------------------------------
(* Claims about the wheel, the keys and the clipboard *)

\* C13: in both backends every wheel event adds a delta of -1, 0 or +1 per
\* axis, the sign of its raw value, so the accumulator is the sum of the
\* signs.
C13_WheelAddsSigns ==
    /\ op.name = "MouseWheel" => op.delta.X \in {-1, 0, 1} /\ op.delta.Y \in {-1, 0, 1}
    /\ io.mouseWheel = hist.wheelSigns

\* C14: after every key event the key is forwarded (KeysDown holds the keys
\* held) and ctrl, shift and alt are each true exactly when the left or the
\* right key of the modifier is held, whatever the event's modifier bits say.
C14_ModifiersFollowHeldKeys ==
    /\ io.keysDown = host.keysHeld
    /\ io.keyCtrl <=> ("LeftControl" \in host.keysHeld \/ "RightControl" \in host.keysHeld)
    /\ io.keyShift <=> ("LeftShift" \in host.keysHeld \/ "RightShift" \in host.keysHeld)
    /\ io.keyAlt <=> ("LeftAlt" \in host.keysHeld \/ "RightAlt" \in host.keysHeld)

\* With the right shift key held, the letter was released by an event whose
\* modifier bits say control and not shift: shift is set, control is not.
C14_Witness ==
    /\ op.name = "KeyEvent"
    /\ op.key = "A" /\ op.action = "release"
    /\ op.mods = {"Control"}
    /\ host.keysHeld = {"RightShift"}
    /\ io.keyShift /\ ~io.keyCtrl /\ ~io.keyAlt

\* C15: Text never returns an error; it returns the empty string when the
\* host clipboard has no text, and the stored text otherwise.
C15_TextNeverFails ==
    op.name = "Text" =>
        /\ op.err = "nil"
        /\ op.text = IF host.clipboard.available THEN host.clipboard.text ELSE ""

-----------------------------------------------------------------------------
(* Claims about the driver loop *)

\* C16: the loop ends exactly when a quit event was polled: main returns only
\* after one, a polled quit clears running, no event goes to ProcessEvent
\* after it, at most the frame of that iteration is rendered, and at the end
\* of an iteration the loop goes on when no quit was polled and ends when one
\* was.
C16_LoopEndsOnQuitOnly ==
    /\ (drv.pc = "return" \/ drv.exit = "return") => drv.quitPolled
    /\ drv.quitPolled <=> ~drv.running
    /\ ~drv.forwardedAfterQuit
    /\ drv.framesAfterQuit <= 1
    /\ op.name = "GLSwap" =>
          drv.pc = IF drv.quitPolled THEN "return" ELSE "PollEvent"

\* main has returned after a quit event that left a later event in the
\* queue, and the frame of that iteration was rendered.
C16_Witness ==
    /\ drv.exit = "return"
    /\ drv.quitPolled
    /\ drv.events # <<>>
    /\ drv.framesAfterQuit = 1

\* The calls of an iteration of the loop come in the order of the body: the
\* events, the scene, NewFrame once, the widgets, Render.
LoopCallOrder ==
    LET body == <<"scene", "NewFrame", "widgets", "Render">>
        rest == IF drv.trace # <<>> /\ drv.trace[1] = "ProcessEvent"
                THEN Tail(drv.trace) ELSE drv.trace
    IN  /\ Len(rest) <= Len(body)
        /\ \A k \in 1..Len(rest) : rest[k] = body[k]
        /\ drv.pc = "GLSwap" => rest = body

\* The pushes a NewFrame call has to make before the frame begins.
NewFramePushes ==
    { <<"SetDisplaySize", 0>>, <<"SetDeltaTime", 0>>, <<"SetMousePosition", 0>> }
    \cup { <<"SetMouseButtonDown", i>> : i \in ButtonIndices }

\* C17: NewFrame runs once per iteration of the loop, after the events and
\* before the widgets and Render; inside NewFrame the library's frame-begin
\* is the last call, made once, after the display size, the delta time, the
\* cursor position and the three button states were each pushed.
C17_FrameBeginAfterAllPushes ==
    /\ LoopCallOrder
    /\ (op.name = "NewFrame" /\ "calls" \in DOMAIN op) =>
          LET n == Len(op.calls)
          IN  /\ op.calls[n] = <<"imgui.NewFrame", 0>>
              /\ \A p \in NewFramePushes : \E k \in 1..(n - 1) : op.calls[k] = p
              /\ \A k \in 1..(n - 1) : op.calls[k] \in NewFramePushes

-----------------------------------------------------------------------------
(* Claims about the objects Render and the device functions own *)

\* C18: a Render past the minimized-window return generates one vertex array
\* under a name that was not allocated, binds it, issues every draw and
\* callback with it, deletes it once and only then starts the restore, whose
\* BindVertexArray is the only other one; the allocated vertex arrays after
\* the call are those before it.
C18_VertexArrayIsTransient ==
    [][(op'.name = "Render" /\ ~Minimized(host.fbSize.w, host.fbSize.h)) =>
         LET log == glLog'
             gens == CallsTo(log, {"GenVertexArrays"})
             dels == CallsTo(log, {"DeleteVertexArrays"})
             binds == CallsTo(log, {"BindVertexArray"})
         IN  /\ Cardinality(gens) = 1
             /\ Cardinality(dels) = 1
             /\ \A g \in gens, d \in dels :
                  /\ log[g].a = log[d].a
                  /\ log[g].a[1] \notin gl.vertexArrays
                  /\ \A i \in CallsTo(log, {"DrawElementsWithOffset", "CallUserCallback"}) :
                       g < i /\ i < d
                  /\ \E i \in binds : i < d
                  /\ \E i \in binds : i > d
                  /\ \A i \in binds :
                       IF i < d
                       THEN i = g + 1 /\ log[i].a = log[g].a
                       ELSE log[i].a = <<gl.vertexArray>>
                  /\ log[d + 1] = GLCall("UseProgram", <<gl.program>>)
             /\ gl'.vertexArrays = gl.vertexArrays]_vars

\* The second Render in a row has drawn, generated and deleted vertex array 2
\* while the application's vertex array 1 stayed allocated and is bound
\* again.
C18_Witness ==
    /\ op.name = "Render"
    /\ hist.renders = 2
    /\ Len(DrawCalls(glLog)) > 0
    /\ CallsOf(glLog, "GenVertexArrays", <<2>>) # {}
    /\ CallsOf(glLog, "DeleteVertexArrays", <<2>>) # {}
    /\ gl.vertexArrays = {App.vertexArray}
    /\ gl.vertexArray = App.vertexArray

\* C19: from NewIMUI on, the texture id registered with the font atlas is
\* ui.fontTexture.  NewIMUI makes it the texture GenTextures returned, newly
\* allocated when that is not 0, and createFontsTexture binds the texture
\* that was bound before it as its last call, ahead of the restore of
\* createDeviceObjects; Dispose deletes it and makes both 0; NewFrame and
\* Render leave it alone.
C19_AtlasIdIsFontTexture ==
    [][/\ io'.fontTexID = ui'.fontTexture
       /\ op'.name = "NewIMUI" =>
            LET log == glLog'
                bound == gl.texture2D[gl.activeTexture]
            IN  \A g \in CallsTo(log, {"GenTextures"}), r \in CallsTo(log, {"SetTextureID"}) :
                  /\ ui'.fontTexture = log[g].a[1]
                  /\ log[r].a = <<ui'.fontTexture>>
                  /\ ui'.fontTexture # 0 =>
                        ui'.fontTexture \in gl'.textures \ gl.textures
                  /\ log[r + 1] = GLCall("BindTexture", <<"TEXTURE_2D", bound>>)
                  /\ log[r + 2] = GLCall("BindTexture", <<"TEXTURE_2D", bound>>)
                  /\ gl'.texture2D = gl.texture2D
       /\ op'.name = "Dispose" =>
            /\ ui'.fontTexture = 0
            /\ ui.fontTexture \notin gl'.textures
       /\ op'.name \in {"NewFrame", "Render"} => ui'.fontTexture = ui.fontTexture]_vars

\* The backend was created with the application's texture 2 bound, got
\* texture 1 for its fonts, rendered and was disposed: texture 2 is still
\* bound, texture 1 is gone and the atlas has id 0.
C19_Witness ==
    /\ op.name = "Dispose"
    /\ op.pre.fontTexture = 1
    /\ hist.renders > 0
    /\ gl.texture2D[0] = App.texture
    /\ gl.textures = {App.texture}
    /\ ui.fontTexture = 0
    /\ io.fontTexID = 0

\* C20: Dispose leaves the six handles 0 and releases nothing that an
\* earlier Dispose released; a Dispose after a Dispose issues no call and
\* changes neither the struct, the context nor the font atlas.
C20_DisposeIsIdempotent ==
    [][op'.name = "Dispose" =>
         /\ ui'.vboHandle = 0 /\ ui'.elementsHandle = 0
         /\ ui'.vertHandle = 0 /\ ui'.fragHandle = 0
         /\ ui'.shaderHandle = 0 /\ ui'.fontTexture = 0
         /\ \A i \in CallsTo(glLog', Releases) : glLog'[i] \notin hist.released
         /\ hist.disposed =>
              /\ glLog' = <<>>
              /\ ui' = ui
              /\ gl' = gl
              /\ io' = io]_vars

\* A Dispose that follows one which released all six objects has issued no
\* call.
C20_Witness ==
    /\ op.name = "Dispose"
    /\ op.pre = ui
    /\ Cardinality(hist.released) = 6
    /\ glLog = <<>>
    /\ gl.buffers = {} /\ gl.textures = {} /\ gl.shaderObjects = {}

-----------------------------------------------------------------------------
(* Claims about the key table, the frame protocol and LoadShaders *)

\* The host key of the same meaning as each logical key: the key constant
\* of the host library that carries its name (Return for Enter in sdl).
SameMeaningKeys(b) ==
    IF b = "glfw"
    THEN   "KeyTab" :> "glfw.KeyTab" @@ "KeyLeftArrow" :> "glfw.KeyLeft"
        @@ "KeyRightArrow" :> "glfw.KeyRight" @@ "KeyUpArrow" :> "glfw.KeyUp"
        @@ "KeyDownArrow" :> "glfw.KeyDown" @@ "KeyPageUp" :> "glfw.KeyPageUp"
        @@ "KeyPageDown" :> "glfw.KeyPageDown" @@ "KeyHome" :> "glfw.KeyHome"
        @@ "KeyEnd" :> "glfw.KeyEnd" @@ "KeyInsert" :> "glfw.KeyInsert"
        @@ "KeyDelete" :> "glfw.KeyDelete" @@ "KeyBackspace" :> "glfw.KeyBackspace"
        @@ "KeySpace" :> "glfw.KeySpace" @@ "KeyEnter" :> "glfw.KeyEnter"
        @@ "KeyEscape" :> "glfw.KeyEscape" @@ "KeyA" :> "glfw.KeyA"
        @@ "KeyC" :> "glfw.KeyC" @@ "KeyV" :> "glfw.KeyV" @@ "KeyX" :> "glfw.KeyX"
        @@ "KeyY" :> "glfw.KeyY" @@ "KeyZ" :> "glfw.KeyZ"
    ELSE   "KeyTab" :> "sdl.SCANCODE_TAB" @@ "KeyLeftArrow" :> "sdl.SCANCODE_LEFT"
        @@ "KeyRightArrow" :> "sdl.SCANCODE_RIGHT" @@ "KeyUpArrow" :> "sdl.SCANCODE_UP"
        @@ "KeyDownArrow" :> "sdl.SCANCODE_DOWN" @@ "KeyPageUp" :> "sdl.SCANCODE_PAGEUP"
        @@ "KeyPageDown" :> "sdl.SCANCODE_PAGEDOWN" @@ "KeyHome" :> "sdl.SCANCODE_HOME"
        @@ "KeyEnd" :> "sdl.SCANCODE_END" @@ "KeyInsert" :> "sdl.SCANCODE_INSERT"
        @@ "KeyDelete" :> "sdl.SCANCODE_DELETE"
        @@ "KeyBackspace" :> "sdl.SCANCODE_BACKSPACE"
        @@ "KeySpace" :> "sdl.SCANCODE_SPACE" @@ "KeyEnter" :> "sdl.SCANCODE_RETURN"
        @@ "KeyEscape" :> "sdl.SCANCODE_ESCAPE" @@ "KeyA" :> "sdl.SCANCODE_A"
        @@ "KeyC" :> "sdl.SCANCODE_C" @@ "KeyV" :> "sdl.SCANCODE_V"
        @@ "KeyX" :> "sdl.SCANCODE_X" @@ "KeyY" :> "sdl.SCANCODE_Y"
        @@ "KeyZ" :> "sdl.SCANCODE_Z"

\* C21: from NewIMUI on the key table maps every logical key to the host key
\* of the same meaning, no two logical keys to the same host key, and no key
\* event was processed before it was installed.
C21_KeyTableIsOneToOne ==
    /\ op.name = "start" => io.keysDown = {}
    /\ op.name # "start" =>
          /\ DOMAIN io.keyMap = LogicalKeys
          /\ \A k \in LogicalKeys : io.keyMap[k] = SameMeaningKeys(backend)[k]
          /\ \A j, k \in LogicalKeys : io.keyMap[j] = io.keyMap[k] => j = k

\* C22: every imgui.NewFrame after the first finds the frame before it ended
\* by exactly one imgui.Render, whatever the framebuffer size was when Render
\* was called.
C22_FrameBeginEndsPair ==
    [][/\ hist'.frameEnds <= 1
       /\ (op'.name = "NewFrame" /\ hist.framed) =>
             /\ hist.frameEnds = 1
             /\ ~io.frameOpen]_vars

\* C23: LoadShaders returns 0 and an error when it is given fewer than two
\* shaders, when one of them does not compile and when the program does not
\* link, and after a return with an error the shader and program objects
\* allocated are those allocated before the call.
C23_LoadShadersCleansUpOnError ==
    op.name = "LoadShaders" =>
      /\ (\/ Len(op.ss) < 2
          \/ \E i \in DOMAIN op.ss : ~op.ss[i].compiles
          \/ ~op.links)
            => (op.program = 0 /\ op.err # "nil")
      /\ op.err # "nil" => gl.shaderObjects = op.before

=============================================================================
